---- MODULE Spec2Model ----
(***************************************************************************)
(* A model of the ippper IPP server core: the dispatcher                   *)
(* (service/common.rs) and SimpleIppService (service/simple.rs) with its   *)
(* job-id counter, job cache and per-job records, driven by concurrently   *)
(* running request handlers.  A handler advances in one step from one      *)
(* suspension point (an .await that can yield) to the next.                *)
(***************************************************************************)
EXTENDS Integers, Sequences, FiniteSets, TLC

\* ------------------------------------------------------------------ bounds
\* Number of requests the clients send in one behaviour (all may overlap).
MaxReqs == 3
\* Largest value the uptime clock reaches.
MaxTime == 1

\* ---------------------------------------------------------- program constants
\* AtomicI32::new(1000)
FirstJobId == 1000

Reqs == 1 .. MaxReqs

\* ------------------------------------------------------------ IPP vocabulary
\* IppVersion wraps a u16: major in the high byte, minor in the low byte.
Ver(major, minor) == major * 256 + minor
Major(v) == v \div 256
Minor(v) == v % 256

\* SimpleIppService::version() is IppVersion::v2_0().
ServerVersion == Ver(2, 0)

SuccessfulOk == "successful-ok"
ClientErrorNotFound == "client-error-not-found"
ClientErrorDocumentFormatNotSupported == "client-error-document-format-not-supported"
ClientErrorCompressionNotSupported == "client-error-compression-not-supported"
ServerErrorInternalError == "server-error-internal-error"
ServerErrorOperationNotSupported == "server-error-operation-not-supported"
ServerErrorVersionNotSupported == "server-error-version-not-supported"
ServerErrorBusy == "server-error-busy"

\* Display of a StatusCode: a text that differs from the keyword and from
\* the text of every other code.
StatusCodeToString(code) ==
    CASE code = SuccessfulOk -> "Display(successful-ok)"
      [] code = ClientErrorNotFound -> "Display(client-error-not-found)"
      [] code = ClientErrorDocumentFormatNotSupported ->
             "Display(client-error-document-format-not-supported)"
      [] code = ClientErrorCompressionNotSupported ->
             "Display(client-error-compression-not-supported)"
      [] code = ServerErrorInternalError -> "Display(server-error-internal-error)"
      [] code = ServerErrorOperationNotSupported ->
             "Display(server-error-operation-not-supported)"
      [] code = ServerErrorVersionNotSupported ->
             "Display(server-error-version-not-supported)"
      [] code = ServerErrorBusy -> "Display(server-error-busy)"

\* Operation codes of the wire format (u16).
PrintJob == 2
PrintUri == 3
ValidateJob == 4
CreateJob == 5
SendDocument == 6
SendUri == 7
CancelJob == 8
GetJobAttributes == 9
GetJobs == 10
GetPrinterAttributes == 11
HoldJob == 12
ReleaseJob == 13
RestartJob == 14
PausePrinter == 16
ResumePrinter == 17
PurgeJobs == 18
\* An operation the Operation enum knows and handle_request does not dispatch.
CupsGetDefault == 16385
\* A code no Operation names.
UnknownOperation == 15

\* The sixteen operations handle_request has an arm for.
DispatchedOperations ==
    { PrintJob, PrintUri, ValidateJob, CreateJob, SendDocument, SendUri, CancelJob,
      GetJobAttributes, GetJobs, GetPrinterAttributes, HoldJob, ReleaseJob,
      RestartJob, PausePrinter, ResumePrinter, PurgeJobs }

\* The operations SimpleIppService overrides.
ImplementedOperations ==
    { PrintJob, ValidateJob, CreateJob, SendDocument, CancelJob, GetJobAttributes,
      GetJobs, GetPrinterAttributes }

\* Operation::from_u16: Some(op) for a code the enum names, None otherwise.
OperationFromU16(code) ==
    IF code \in DispatchedOperations \cup {CupsGetDefault}
    THEN [some |-> TRUE, op |-> code]
    ELSE [some |-> FALSE, op |-> 0]

\* ------------------------------------------------------------------- errors
\* anyhow::Error holding an IppError {code, msg} ...
IppError(code, msg) == [ipp |-> TRUE, code |-> code, msg |-> msg]
\* ... or holding any other error type, of which only the text is known.
OtherError(text) == [ipp |-> FALSE, code |-> "", msg |-> text]

\* #[error("{code} {msg:?}")] for IppError; the text itself for another error.
ErrorToString(error) ==
    IF ~error.ipp THEN error.msg
    ELSE CASE error.code = ServerErrorBusy /\ error.msg = "printer busy" ->
                  "Display(server-error-busy) \"printer busy\""
           [] OTHER -> "Display(IppError)"

\* format!("Aborted: {}", error)
AbortedMessage(error) ==
    CASE ErrorToString(error) = "disk full" -> "Aborted: disk full"
      [] ErrorToString(error) = "Display(server-error-busy) \"printer busy\"" ->
             "Aborted: Display(server-error-busy) \"printer busy\""
      [] OTHER -> "Aborted: ?"

\* The error of an unsupported operation with the internal-error code.
operation_failed ==
    IppError(ServerErrorInternalError, StatusCodeToString(ServerErrorInternalError))

operation_not_supported ==
    IppError(ServerErrorOperationNotSupported,
             StatusCodeToString(ServerErrorOperationNotSupported))

\* ---------------------------------------------------------------- responses
Attr(name, value) == [name |-> name, value |-> value]

OperationAttributes == "operation-attributes"
JobAttributes == "job-attributes"
PrinterAttributes == "printer-attributes"

\* A response header that answers every request with request id 1.
NewResponseFirstId(version, status, req_id) ==
    [version |-> version, status |-> status, request_id |-> 1, groups |-> <<>>]

\* IppRequestResponse::new_response(version, status, id) as this repository
\* uses it: the header of the response; every attribute of a response is added
\* by the repository's own code.
NewResponse(version, status, req_id) ==
    [version |-> version, status |-> status, request_id |-> req_id, groups |-> <<>>]

\* Insert into a name -> attribute map that keeps insertion order: a name
\* already present keeps its place and takes the new value.
InsertAttr(attrs, attr) ==
    IF \E i \in 1 .. Len(attrs) : attrs[i].name = attr.name
    THEN [i \in 1 .. Len(attrs) |-> IF attrs[i].name = attr.name THEN attr ELSE attrs[i]]
    ELSE Append(attrs, attr)

\* IppAttributes::add(tag, attr): into the first group of that tag, created
\* at the end when there is none.
AttributesAdd(resp, tag, attr) ==
    IF \E i \in 1 .. Len(resp.groups) : resp.groups[i].tag = tag
    THEN LET k == CHOOSE i \in 1 .. Len(resp.groups) :
                      /\ resp.groups[i].tag = tag
                      /\ \A j \in 1 .. i - 1 : resp.groups[j].tag # tag
         IN [resp EXCEPT !.groups[k].attributes = InsertAttr(@, attr)]
    ELSE [resp EXCEPT !.groups = Append(@, [tag |-> tag, attributes |-> <<attr>>])]

\* resp.attributes_mut().groups_mut().push(group) with the group filled by
\* extend(attrs.map(|x| (x.name, x))).
ExtendAttrs(attrs, more) ==
    LET all == attrs \o more
        first == { i \in 1 .. Len(all) : \A j \in 1 .. i - 1 : all[j].name # all[i].name }
        last(name) == CHOOSE i \in 1 .. Len(all) :
                          /\ all[i].name = name
                          /\ \A j \in i + 1 .. Len(all) : all[j].name # name
        nth(k) == CHOOSE i \in first : Cardinality({ j \in first : j < i }) = k - 1
    IN [k \in 1 .. Cardinality(first) |-> all[last(all[nth(k)].name)]]

PushGroup(resp, tag, attrs) ==
    [resp EXCEPT !.groups = Append(@, [tag |-> tag, attributes |-> ExtendAttrs(<<>>, attrs)])]

\* The attributes of the first group with the tag (<<>> when there is none).
GroupAttrs(resp, tag) ==
    IF \E i \in 1 .. Len(resp.groups) : resp.groups[i].tag = tag
    THEN resp.groups[CHOOSE i \in 1 .. Len(resp.groups) :
                         /\ resp.groups[i].tag = tag
                         /\ \A j \in 1 .. i - 1 : resp.groups[j].tag # tag].attributes
    ELSE <<>>

HasAttrNamed(attrs, name) == \E i \in 1 .. Len(attrs) : attrs[i].name = name
HasAttr(attrs, name, value) ==
    \E i \in 1 .. Len(attrs) : attrs[i].name = name /\ attrs[i].value = value

\* A version check that looks at the major version only.
check_major_version(version) == Major(version) <= Major(ServerVersion)

\* IppService::check_version: the u16 of the request against the server's.
check_version(version) == version <= ServerVersion

\* An error response that replaces every status code by internal-error.
build_internal_error_response(version, req_id, error) ==
    AttributesAdd(NewResponse(version, ServerErrorInternalError, req_id),
                  OperationAttributes,
                  Attr("status-message", ErrorToString(error)))

\* An error response that carries the status code and no status-message.
build_error_response_without_message(version, req_id, error) ==
    NewResponse(version,
                IF error.ipp THEN error.code ELSE ServerErrorInternalError,
                req_id)

\* IppService::build_error_response
build_error_response(version, req_id, error) ==
    LET ipp_error == IF error.ipp THEN error
                     ELSE IppError(ServerErrorInternalError, ErrorToString(error))
    IN AttributesAdd(NewResponse(version, ipp_error.code, req_id),
                     OperationAttributes,
                     Attr("status-message", ipp_error.msg))

\* The basic attributes added in the other order.
add_basic_attributes_language_first(resp) ==
    AttributesAdd(
        AttributesAdd(resp, OperationAttributes, Attr("attributes-natural-language", "en")),
        OperationAttributes, Attr("attributes-charset", "utf-8"))

\* SimpleIppService::add_basic_attributes
add_basic_attributes(resp) ==
    AttributesAdd(
        AttributesAdd(resp, OperationAttributes, Attr("attributes-charset", "utf-8")),
        OperationAttributes, Attr("attributes-natural-language", "en"))


\* ------------------------------------------------------------ printer config
\* PrinterInfoBuilder defaults that the request handlers read.
Absent == "<absent>"
document_format_supported == {"application/pdf"}
media_default == "iso_a4_210x297mm"
sides_default == "one-sided"
print_color_mode_default == "monochrome"

\* ------------------------------------------------------------------ requests
\* Option<T> of the code: some = FALSE is None.
None == [some |-> FALSE, v |-> 0]
Some(x) == [some |-> TRUE, v |-> x]

\* The job-id operation attribute: absent, an Integer, or a value of another
\* type (as_integer() is None for it).
NoJobId == [tag |-> "absent", int |-> 0]
IntJobId(n) == [tag |-> "integer", int |-> n]
KeywordJobId == [tag |-> "keyword", int |-> 0]

NoRequested == [some |-> FALSE, names |-> {}]
Requested(names) == [some |-> TRUE, names |-> names]

\* The value of a document-format operation attribute: the syntax it was
\* sent with (mimeMediaType, or another one such as keyword) and its text.
NoDocumentFormat == [tag |-> "absent", text |-> Absent]
MimeMediaType(text) == [tag |-> "mimeMediaType", text |-> text]
Keyword(text) == [tag |-> "keyword", text |-> text]

\* A parsed IPP request: header and the attributes the handlers look at.
Request(version, op, request_id) ==
    [ version |-> version, op |-> op, request_id |-> request_id,
      job_id |-> NoJobId, document_format |-> NoDocumentFormat, compression |-> Absent,
      user |-> Absent, limit |-> None, which_jobs |-> Absent,
      requested |-> NoRequested ]

Versions == { Ver(1, 1), Ver(2, 0), Ver(2, 1), Ver(3, 0) }
OperationCodes == DispatchedOperations \cup { CupsGetDefault, UnknownOperation }
RequestIds == { 1, 77 }
DocumentFormats ==
    { NoDocumentFormat, MimeMediaType("application/pdf"), MimeMediaType("image/urf"),
      Keyword("image/urf") }
Compressions == { Absent, "none", "gzip", "deflate" }
UserNames == { Absent, "alice" }
JobIdValues == { NoJobId, KeywordJobId, IntJobId(FirstJobId - 1) }
                   \cup { IntJobId(FirstJobId + k) : k \in 0 .. 1 }
Limits == { None, Some(0), Some(1) }
WhichJobsValues == { Absent, "completed", "not-completed", "all" }
RequestedSets ==
    { NoRequested,
      Requested({"printer-name", "printer-state", "job-id", "job-state"}),
      Requested({"printer-uuid", "job-template"}),
      Requested({"all"}),
      Requested({"job-description", "printer-up-time"}),
      Requested({}) }

\* Every request the sequential client sends: every header without
\* attributes, and under one accepted header the attribute values each
\* handler distinguishes.
HeaderRequests ==
    { Request(v, op, id) : v \in Versions, op \in OperationCodes, id \in RequestIds }

AttributeRequests ==
    LET q(op) == Request(ServerVersion, op, 1) IN
    { [q(PrintJob) EXCEPT !.document_format = f, !.compression = c] :
          f \in DocumentFormats, c \in Compressions }
      \cup { [q(op) EXCEPT !.user = u] : op \in { PrintJob, CreateJob }, u \in UserNames }
      \cup { [q(SendDocument) EXCEPT !.job_id = j] : j \in JobIdValues }
      \cup { [q(SendDocument) EXCEPT !.job_id = IntJobId(FirstJobId),
                                     !.document_format = f, !.compression = c] :
                f \in DocumentFormats, c \in Compressions }
      \cup { [q(SendDocument) EXCEPT !.job_id = IntJobId(FirstJobId), !.user = "bob"] }
      \cup { [q(CancelJob) EXCEPT !.job_id = IntJobId(FirstJobId)] }
      \cup { [q(GetJobAttributes) EXCEPT !.job_id = j] : j \in JobIdValues }
      \cup { [q(GetJobAttributes) EXCEPT !.job_id = IntJobId(FirstJobId), !.requested = a] :
                a \in RequestedSets }
      \cup { [q(GetJobs) EXCEPT !.limit = l, !.which_jobs = w] :
                l \in Limits, w \in WhichJobsValues }
      \cup { [q(op) EXCEPT !.requested = a] :
                op \in { GetJobs, GetPrinterAttributes }, a \in RequestedSets }

AllRequests == HeaderRequests \cup AttributeRequests

\* The requests for the operations that allocate jobs or look them up, with
\* every kind of job-id.
JobRequests ==
    LET q(op) == Request(ServerVersion, op, 1) IN
    { q(PrintJob), q(CreateJob), q(GetJobs) }
      \cup { [q(op) EXCEPT !.job_id = j] :
                op \in { SendDocument, GetJobAttributes }, j \in JobIdValues }

\* The requests overlapping clients send: the operations that create and
\* change jobs, at the server's version.
OverlapRequests ==
    LET q(op) == Request(ServerVersion, op, 1) IN
    { q(PrintJob), q(CreateJob) }
      \cup { [q(SendDocument) EXCEPT !.job_id = IntJobId(FirstJobId + k)] : k \in 0 .. 1 }
      \cup { [q(GetJobs) EXCEPT !.which_jobs = w] : w \in { Absent, "completed", "all" } }

\* What the sink's handle_document returns.
SinkErrors == { OtherError("disk full"), IppError(ServerErrorBusy, "printer busy") }
Ok == [ok |-> TRUE, error |-> OtherError("")]
Err(error) == [ok |-> FALSE, error |-> error]
SinkResults == { Ok } \cup { Err(e) : e \in SinkErrors }

\* ---------------------------------------------------------------------- state
VARIABLES
    job_id,        \* SimpleIppService.job_id, the AtomicI32
    jobs,          \* the RwLock<JobInfo> objects alloc_job created, by id
    job_snapshot,  \* the ids the job cache holds
    now,           \* the time since start_time, in seconds
    pc,            \* where each request's handler is
    task,          \* the locals of each running handler
    reply,         \* the response handle_request returned in the last step, with its request
    answered,      \* how many responses handle_request has returned per request
    allocated,     \* the ids fetch_add returned, in the order of the fetch_adds
    sink_calls,    \* how often each request's handler has called handle_document
    body,          \* BodyReader.body: the frames the HTTP body has yet to yield
    chunk,         \* BodyReader.chunk: the rest of a data frame not yet read
    got,           \* the bytes the poll_read calls have returned so far, in order
    read,          \* what the last poll_read returned
    inner,         \* Body.inner, with the value the Body was made from
    reader_stream, \* the ReaderStream of the payload: reader, spare capacity of buf
    items,         \* what Body::poll_next has returned so far, in order
    stream_items,  \* what ReaderStream::poll_next has returned so far, in order
    polled,        \* what the reader inside the ReaderStream has returned so far
    locking        \* per handler: the lock operations and sink calls it has yet to
                   \* do, the job locks it holds, and whether its sink call is running

reader_vars == << body, chunk, got, read >>
service_vars ==
    << job_id, jobs, job_snapshot, now, pc, task, reply, answered, allocated, sink_calls >>
stream_vars == << inner, reader_stream, items, stream_items, polled >>
vars ==
    << job_id, jobs, job_snapshot, now, pc, task, reply, answered, allocated, sink_calls,
       body, chunk, got, read, inner, reader_stream, items, stream_items, polled,
       locking >>

NoResponse == NewResponse(0, "", 0)
NoJob == 0
NoJobAttributes ==
    [ originating_user_name |-> Absent, media |-> Absent, sides |-> Absent,
      print_color_mode |-> Absent ]
NoDocument == [format |-> Absent, job_attributes |-> NoJobAttributes, payload |-> Absent]
NoTask ==
    [ req |-> Request(0, 0, 0), job |-> NoJob, job_attributes |-> NoJobAttributes,
      document |-> NoDocument, document_handled |-> Ok,
      resp |-> NoResponse, todo |-> {}, count |-> 0 ]
\* ------------------------------------------------------- the HTTP front end
\* The HTTP request handle_ipp_via_http is called with: method, path, the
\* Content-Type header, and whether AsyncIppParser can parse the body ("ipp")
\* or fails on it ("truncated", "malformed").
HttpRequest(method, path, content_type, content) ==
    [ method |-> method, path |-> path, content_type |-> content_type, body |-> content ]
NoHttpRequest == HttpRequest("", "", Absent, "")
\* The HTTP request that carries a parsed IPP request.
PostIpp == HttpRequest("POST", "/", "application/ipp", "ipp")

\* What handle_ipp_via_http returns: Ok(Response) with its status, its Allow
\* and Content-Type headers and its body, or Err (failed), in which case no
\* response is built; parsed tells whether the parser was run on the body.
HttpResponse(status, allow, content_type, content, parsed) ==
    [ status |-> status, allow |-> allow, content_type |-> content_type, body |-> content,
      failed |-> FALSE, parsed |-> parsed ]
NoHttpResponse == HttpResponse(0, Absent, Absent, Absent, FALSE)
HttpFailed(error) ==
    [ status |-> 0, allow |-> Absent, content_type |-> Absent, body |-> error,
      failed |-> TRUE, parsed |-> TRUE ]

\* A front end that reports an IPP error status as HTTP 500.
HttpOkIfSuccessful(resp) ==
    HttpResponse(IF resp.status = SuccessfulOk THEN 200 ELSE 500,
                 Absent, "application/ipp", resp, TRUE)

\* handle_ipp_via_http, lines 37-42: the response handle_request returned,
\* as the body of a 200.
HttpOk(resp) == HttpResponse(200, Absent, "application/ipp", resp, TRUE)

\* A front end that lets every Content-Type pass.
handle_ipp_via_http_early_any_type(h) ==
    IF h.method # "POST"
    THEN Some(HttpResponse(405, "POST", Absent, "405 Method Not Allowed", FALSE))
    ELSE IF h.body # "ipp"
    THEN Some(HttpFailed("parse error"))
    ELSE None

\* handle_ipp_via_http, lines 20-35: what it returns before handle_request
\* is called, if it returns there (the method check, the Content-Type check,
\* and the `?` on the parser's result), or None if it goes on.
handle_ipp_via_http_early(h) ==
    IF h.method # "POST"
    THEN Some(HttpResponse(405, "POST", Absent, "405 Method Not Allowed", FALSE))
    ELSE IF h.content_type # "application/ipp"
    THEN Some(HttpResponse(415, Absent, Absent, "415 Unsupported Media Type", FALSE))
    ELSE IF h.body # "ipp"
    THEN Some(HttpFailed("parse error"))
    ELSE None

Methods == { "GET", "POST", "PUT", "HEAD" }
Paths == { "/", "/ipp/print" }
ContentTypes == { Absent, "application/ipp", "text/plain", "application/ipp; charset=utf-8" }
Bodies == { "ipp", "truncated", "malformed" }
HttpRequests ==
    { HttpRequest(m, p, c, b) : m \in Methods, p \in Paths, c \in ContentTypes, b \in Bodies }

\* The error a response was built from by build_error_response, if any.
NoError == [some |-> FALSE, error |-> OtherError("")]
Raised(error) == [some |-> TRUE, error |-> error]
\* by: "handle_request" for an error response the dispatcher built,
\* "handler" for the response an operation method returned; job: the job the
\* handler allocated or found, if any.
NoReply ==
    [ r |-> 0, req |-> Request(0, 0, 0), resp |-> NoResponse, by |-> "", error |-> NoError,
      job |-> NoJob, http_req |-> NoHttpRequest, http |-> NoHttpResponse ]

\* ----------------------------------------------------------- BodyReader
\* The frames of an HTTP body: data frames, frames that are not data
\* (trailers), and an error of the inner body, after which the body yields
\* nothing more. The bytes of a body are numbered 1, 2, 3, ... in the order of
\* the wire.
MaxBytes == 3
MaxFrames == 3
MaxBuf == 2
Iota(n) == [i \in 1 .. n |-> i]
DataFrame(from, to) == [kind |-> "data", data |-> [i \in 1 .. to - from + 1 |-> from + i - 1]]
TrailersFrame == [kind |-> "trailers", data |-> << >>]
ErrorFrame == [kind |-> "error", data |-> << >>]
\* The bodies of n bytes in m frames: cut[i] is the number of the last byte of
\* frame i (a frame may be empty), and any empty frame may be a trailers frame.
FramesOf(n, m, cut, kind) ==
    [i \in 1 .. m |->
        IF kind[i] = "trailers" THEN TrailersFrame
        ELSE DataFrame((IF i = 1 THEN 0 ELSE cut[i - 1]) + 1, cut[i])]
Cuts(n, m) ==
    { cut \in [1 .. m -> 0 .. n] :
        /\ \A i \in 1 .. m - 1 : cut[i] <= cut[i + 1]
        /\ IF m > 0 THEN cut[m] = n ELSE n = 0 }
Kinds(m, cut) ==
    { kind \in [1 .. m -> { "data", "trailers" }] :
        \A i \in 1 .. m :
            kind[i] = "trailers" => cut[i] = (IF i = 1 THEN 0 ELSE cut[i - 1]) }
BodiesOf(n, m) ==
    UNION { { FramesOf(n, m, cut, kind) \o tail :
                kind \in Kinds(m, cut), tail \in { << >>, << ErrorFrame >> } } :
            cut \in Cuts(n, m) }
FrameSeqs ==
    UNION { BodiesOf(n, m) : n \in 0 .. MaxBytes, m \in 0 .. MaxFrames }
BufferSizes == 0 .. MaxBuf

NoChunk == [some |-> FALSE, v |-> << >>]
SomeChunk(data) == [some |-> TRUE, v |-> data]
\* Poll<Result<usize, io::Error>>, with the bytes copied to buf and the branch
\* that returned ("chunk": lines 41-48, "frame": lines 49-70).
NoRead == [kind |-> "none", bytes |-> << >>, buf |-> 0, from |-> "", error |-> ""]
ReadOk(bytes, buf, from) ==
    [kind |-> "ok", bytes |-> bytes, buf |-> buf, from |-> from, error |-> ""]
ReadErr(buf, error) ==
    [kind |-> "err", bytes |-> << >>, buf |-> buf, from |-> "frame", error |-> error]
ReadPending(buf) ==
    [kind |-> "pending", bytes |-> << >>, buf |-> buf, from |-> "frame", error |-> ""]

Min(a, b) == IF a <= b THEN a ELSE b
\* The data the frames of a body hold, concatenated.
RECURSIVE DataOf(_)
DataOf(frames) ==
    IF frames = << >> THEN << >> ELSE Head(frames).data \o DataOf(Tail(frames))
\* The number of frames at the head of the body that are not data:
\* data.into_data() fails for them and the loop polls the next frame.
RECURSIVE LeadingTrailers(_)
LeadingTrailers(frames) ==
    IF frames # << >> /\ Head(frames).kind = "trailers"
    THEN 1 + LeadingTrailers(Tail(frames))
    ELSE 0

\* A reader that forgets what did not fit into buf.
drop_rest(data, len) == NoChunk

\* Lines 44-46 and 55-57: if data.has_remaining() { self.chunk.replace(data) }
\* after len bytes of data have been copied.
replace_chunk(data, len) ==
    IF len < Len(data) THEN SomeChunk(SubSeq(data, len + 1, Len(data))) ELSE NoChunk

\* ------------------------------------------------ Body and ReaderStream
\* The bytes of a payload are numbered 1, 2, 3, ... in the order they are
\* read; byte 0 stands for the serialized header (IppRequestResponse::to_bytes).
MaxPolls == 6
\* const DEFAULT_CAPACITY: usize = 4096, scaled to the bound on buffers.
DEFAULT_CAPACITY == MaxBuf
HeaderBlob == << 0 >>

\* Option<Bytes>
NoBytes == [some |-> FALSE, v |-> << >>]
SomeBytes(b) == [some |-> TRUE, v |-> b]

\* An AsyncRead: the bytes it has yet to give, and whether it ends with an
\* error instead of Ok(0).
ReaderOf(rest, fails) == [rest |-> rest, fails |-> fails]
NoReader == [some |-> FALSE, v |-> ReaderOf(<< >>, FALSE)]
SomeReader(rd) == [some |-> TRUE, v |-> rd]
\* An IppRequestResponse, as far as Body looks at it: its header and payload.
IppRequestResponse(payload_bytes, fails) ==
    [header |-> HeaderBlob, payload |-> ReaderOf(payload_bytes, fails)]
NoIppRequestResponse == IppRequestResponse(<< >>, FALSE)

\* ReaderStream::new(reader): buf is BytesMut::new(), which has no capacity.
ReaderStreamNew(rd) == [reader |-> SomeReader(rd), cap |-> 0, capacity |-> DEFAULT_CAPACITY]
NoReaderStream == [reader |-> NoReader, cap |-> 0, capacity |-> DEFAULT_CAPACITY]

\* BodyInner, with the value it was made from (t, bytes).
BodyEmpty ==
    [kind |-> "Empty", slot |-> NoBytes, bytes |-> << >>, t |-> NoIppRequestResponse]
BodyFromBytes(b) ==
    [kind |-> "Bytes", slot |-> SomeBytes(b), bytes |-> b, t |-> NoIppRequestResponse]
BodyFromIppRequestResponse(t) ==
    [kind |-> "IppRequestResponse", slot |-> SomeBytes(t.header), bytes |-> << >>, t |-> t]

\* Poll<Option<io::Result<Bytes>>>, and Poll<io::Result<usize>> with the bytes read.
ItemOk(b) == [kind |-> "ok", bytes |-> b]
ItemErr == [kind |-> "err", bytes |-> << >>]
ItemNone == [kind |-> "none", bytes |-> << >>]
ItemPending == [kind |-> "pending", bytes |-> << >>]

\* The payloads and the bodies the streams are checked over.
PayloadReaders ==
    { ReaderOf(Iota(n), fails) : n \in 0 .. MaxBytes, fails \in BOOLEAN }
BodyValues ==
    { BodyEmpty, BodyFromBytes(<< >>), BodyFromBytes(<< 9 >>) }
    \cup { BodyFromIppRequestResponse([header |-> HeaderBlob, payload |-> rd]) :
             rd \in PayloadReaders }

\* What a poll of the reader with a destination of dst_len bytes can answer,
\* with the reader afterwards: Pending, an error, Ok(0) at the end, or
\* 1 .. dst_len of the bytes it has.
ReaderPolls(rd, dst_len) ==
    { [res |-> ItemPending, rd |-> rd] }
    \cup (IF rd.rest = << >>
          THEN { [res |-> (IF rd.fails THEN ItemErr ELSE ItemOk(<< >>)), rd |-> rd] }
          ELSE { [res |-> ItemOk(SubSeq(rd.rest, 1, n)),
                  rd |-> [rd EXCEPT !.rest = SubSeq(rd.rest, n + 1, Len(rd.rest))]] :
                   n \in 1 .. Min(dst_len, Len(rd.rest)) })

\* poll_read_buf over a BytesMut with dst_len bytes of spare capacity: a
\* BytesMut always has_remaining_mut, and chunk_mut is its spare capacity.
poll_read_buf(rd, dst_len) == ReaderPolls(rd, dst_len)

\* A stream that keeps its reader after the end.
keep_reader(reader) == reader

\* self.project().reader.set(None)
set_none(reader) == NoReader

\* A slot that keeps its value when it is taken.
leave(slot) == slot

\* Option::take: what the slot holds afterwards.
take(slot) == NoBytes

\* ReaderStream::poll_next: the item returned, the stream afterwards, and what
\* the reader answered if it was polled.
ReaderStream_poll_next(rs) ==
    IF ~rs.reader.some
    THEN { [item |-> ItemNone, rs |-> rs, polls |-> << >>] }
    ELSE LET cap == IF rs.cap = 0 THEN rs.capacity ELSE rs.cap IN
         { CASE o.res.kind = "pending" ->
                    [ item |-> ItemPending,
                      rs |-> [rs EXCEPT !.cap = cap, !.reader = SomeReader(o.rd)],
                      polls |-> << o.res >> ]
             [] o.res.kind = "err" ->
                    [ item |-> ItemErr,
                      rs |-> [rs EXCEPT !.cap = cap, !.reader = set_none(SomeReader(o.rd))],
                      polls |-> << o.res >> ]
             [] o.res.kind = "ok" /\ o.res.bytes = << >> ->
                    [ item |-> ItemNone,
                      rs |-> [rs EXCEPT !.cap = cap, !.reader = set_none(SomeReader(o.rd))],
                      polls |-> << o.res >> ]
             [] OTHER ->
                    [ item |-> ItemOk(o.res.bytes),
                      rs |-> [rs EXCEPT !.cap = cap - Len(o.res.bytes),
                                        !.reader = SomeReader(o.rd)],
                      polls |-> << o.res >> ]
           : o \in poll_read_buf(rs.reader.v, cap) }

\* No Body is being streamed.
NoStream ==
    /\ inner = BodyEmpty
    /\ reader_stream = NoReaderStream
    /\ items = << >>
    /\ stream_items = << >>
    /\ polled = << >>

\* ---------------------------------------------------------- job locks
\* What each operation method does with the RwLock<JobInfo> of a job and
\* with the sink, in the order of the code: job.write().await and
\* job.read().await return a guard ("write", "read"), the guard is dropped at
\* the end of its block or statement ("unlock"), handle_document is called
\* ("call") and returns ("return").
LockOp(op, job) == [op |-> op, job |-> job]
Guarded(mode, job) == << LockOp(mode, job), LockOp("unlock", job) >>
HandleDocument(job) == << LockOp("call", job), LockOp("return", job) >>

\* A print_job that takes the write lock before it calls the sink.
print_job_locks_across_sink(id) ==
    << LockOp("write", id) >> \o HandleDocument(id) \o << LockOp("unlock", id) >>
        \o Guarded("read", id)

\* print_job: lines 738-745, 746-756, 764
print_job_locks(id) == HandleDocument(id) \o Guarded("write", id) \o Guarded("read", id)
\* create_job: line 814
create_job_locks(id) == Guarded("read", id)
\* send_document: lines 831-839, 853-860, 861-871, 879
send_document_locks(id) ==
    Guarded("write", id) \o HandleDocument(id) \o Guarded("write", id) \o Guarded("read", id)
\* send_document when take_document_format or decommpress_payload fails: lines 831-852
send_document_rejected_locks(id) == Guarded("write", id)
\* get_job_attributes: line 908
get_job_attributes_locks(id) == Guarded("read", id)
\* get_jobs: lines 948-964, over the jobs in the order the iterator yields them
RECURSIVE get_jobs_locks(_)
get_jobs_locks(order) ==
    IF order = << >> THEN << >>
    ELSE Guarded("read", Head(order)) \o get_jobs_locks(Tail(order))

\* A handler: what it has yet to do, the locks it holds, the job whose sink
\* call is running.
Handler(todo) == [todo |-> todo, held |-> {}, in_sink |-> NoJob]
NoLocking == [r \in Reqs |-> Handler(<< >>)]
\* The handlers that run side by side, over two jobs.
HandlerScripts ==
    << print_job_locks(FirstJobId),
       send_document_locks(FirstJobId),
       send_document_rejected_locks(FirstJobId),
       get_job_attributes_locks(FirstJobId),
       create_job_locks(FirstJobId + 1),
       get_jobs_locks(<< FirstJobId, FirstJobId + 1 >>),
       get_jobs_locks(<< FirstJobId + 1, FirstJobId >>) >>
\* Every choice of one handler per request; handlers are interchangeable, so
\* each choice is taken once.
Handlers ==
    { [r \in Reqs |-> Handler(HandlerScripts[f[r]])] :
        f \in { g \in [Reqs -> 1 .. Len(HandlerScripts)] :
                  \A r \in Reqs : r > 1 => g[r - 1] <= g[r] } }

\* The RwLock grants a write guard when nobody holds a guard of the job and a
\* read guard when nobody holds its write guard.
Granted(r, mode, job) ==
    \A r2 \in Reqs \ { r } :
        /\ << "write", job >> \notin locking[r2].held
        /\ mode = "write" => << "read", job >> \notin locking[r2].held

\* SimpleIppService::new: no job yet; no request yet.
InitService ==
    /\ job_id = FirstJobId
    /\ jobs = << >>
    /\ job_snapshot = {}
    /\ now = 0
    /\ pc = [r \in Reqs |-> "idle"]
    /\ task = [r \in Reqs |-> NoTask]
    /\ reply = NoReply
    /\ answered = [r \in Reqs |-> 0]
    /\ allocated = << >>
    /\ sink_calls = [r \in Reqs |-> 0]

\* The service, with no body being read.
Init ==
    /\ InitService
    /\ body = << >>
    /\ chunk = NoChunk
    /\ got = << >>
    /\ read = NoRead
    /\ NoStream
    /\ locking = NoLocking

\* BodyReader::new(body) over any body.
InitReader ==
    /\ InitService
    /\ body \in FrameSeqs
    /\ chunk = NoChunk
    /\ got = << >>
    /\ read = NoRead
    /\ NoStream
    /\ locking = NoLocking


\* ------------------------------------------------------------------ helpers
\* Result<T, anyhow::Error>
OkOf(x) == [ok |-> TRUE, error |-> OtherError(""), v |-> x]
ErrOf(error, x) == [ok |-> FALSE, error |-> error, v |-> x]

\* self.uptime(): start_time.elapsed(), the reading of a clock that never
\* goes back.
uptime == now

\* AtomicI32::fetch_add(1, Relaxed): returns the old value, wraps at i32::MAX.
FetchAddNoIncrement(counter) == [old |-> counter, new |-> counter]
FetchAdd(counter) ==
    [old |-> counter,
     new |-> IF counter = 2147483647 THEN -2147483647 - 1 ELSE counter + 1]

\* take_requesting_user_name
take_requesting_user_name(q) == IF q.user = Absent THEN "anonymous" ELSE q.user

\* SimpleIppJobAttributes::take_ipp_attributes, for a request that carries no
\* job-template attribute: every option falls back to the printer's default.
take_ipp_attributes(originating_user_name) ==
    [ originating_user_name |-> originating_user_name, media |-> media_default,
      sides |-> sides_default, print_color_mode |-> print_color_mode_default ]

\* The JobInfo the closures given to alloc_job build.
NewJobInfo(id, state, state_message, attributes, created_at) ==
    [ id |-> id, state |-> state, state_message |-> state_message,
      state_reasons |-> "none", attributes |-> attributes,
      created_at |-> created_at, processing_at |-> Some(created_at),
      completed_at |-> None ]

\* RwLock::new(init(id)): a new lock-protected JobInfo under that id.
StoreJob(store, info) ==
    [ j \in DOMAIN store \cup { info.id } |-> IF j = info.id THEN info ELSE store[j] ]

\* A find_job that finds every job ever allocated, in the cache or not.
find_job_among_allocated(q) ==
    IF q.job_id.tag = "integer" /\ q.job_id.int \in DOMAIN jobs
    THEN OkOf(q.job_id.int)
    ELSE ErrOf(IppError(ClientErrorNotFound, StatusCodeToString(ClientErrorNotFound)), NoJob)

\* find_job: the job-id operation attribute as an integer, looked up in the cache.
find_job(q) ==
    IF q.job_id.tag = "integer" /\ q.job_id.int \in job_snapshot
    THEN OkOf(q.job_id.int)
    ELSE ErrOf(IppError(ClientErrorNotFound, StatusCodeToString(ClientErrorNotFound)), NoJob)

\* attr.into_mime_media_type().ok() on the attribute taken from the request:
\* the text of a mimeMediaType, None for an absent attribute and for a value
\* of another syntax.
IntoMimeMediaType(attr) == IF attr.tag = "mimeMediaType" THEN attr.text ELSE Absent

\* A take_document_format that looks the format up in the job-id attribute.
take_document_format_from_job_id(q) ==
    IF q.job_id.tag = "mimeMediaType" THEN OkOf(q.job_id.int) ELSE OkOf(Absent)

\* take_document_format
take_document_format(q) ==
    LET format == IntoMimeMediaType(q.document_format) IN
    IF format # Absent /\ format \notin document_format_supported
    THEN ErrOf(IppError(ClientErrorDocumentFormatNotSupported,
                        StatusCodeToString(ClientErrorDocumentFormatNotSupported)), Absent)
    ELSE OkOf(format)

\* A decommpress_payload that passes the payload on under every keyword it
\* does not know.
decommpress_payload_lenient(payload, compression) ==
    IF compression = "gzip" THEN OkOf("GzipDecoder(payload)") ELSE OkOf(payload)

\* decommpress_payload: the payload itself, or a gzip decoder around it.
decommpress_payload(payload, compression) ==
    CASE compression = Absent -> OkOf(payload)
      [] compression = "none" -> OkOf(payload)
      [] compression = "gzip" -> OkOf("GzipDecoder(payload)")
      [] OTHER -> ErrOf(IppError(ClientErrorCompressionNotSupported,
                                 StatusCodeToString(ClientErrorCompressionNotSupported)),
                        Absent)

\* A document built without the format and compression checks.
take_document_unchecked(q, job_attributes) ==
    OkOf([ format |-> IntoMimeMediaType(q.document_format),
           job_attributes |-> job_attributes, payload |-> "payload" ])

\* A take_document that fills the document's job attributes from the request
\* at hand.
take_document_with_request_attributes(q, job_attributes) ==
    LET format == take_document_format(q) IN
    IF ~format.ok THEN ErrOf(format.error, NoDocument)
    ELSE LET payload == decommpress_payload("payload", q.compression) IN
         IF ~payload.ok THEN ErrOf(payload.error, NoDocument)
         ELSE OkOf([ format |-> format.v,
                     job_attributes |-> take_ipp_attributes(take_requesting_user_name(q)),
                     payload |-> payload.v ])

\* Lines 730-744 of print_job and 845-859 of send_document: the document
\* handed to the sink, or the error the handler returns with.
take_document(q, job_attributes) ==
    LET format == take_document_format(q) IN
    IF ~format.ok THEN ErrOf(format.error, NoDocument)
    ELSE LET payload == decommpress_payload("payload", q.compression) IN
         IF ~payload.ok THEN ErrOf(payload.error, NoDocument)
         ELSE OkOf([ format |-> format.v, job_attributes |-> job_attributes,
                     payload |-> payload.v ])

\* JobState as i32, the value of the job-state attribute.
JobStateEnum(state) ==
    CASE state = "Pending" -> 3
      [] state = "PendingHeld" -> 4
      [] state = "Processing" -> 5
      [] state = "ProcessingStopped" -> 6
      [] state = "Canceled" -> 7
      [] state = "Aborted" -> 8
      [] state = "Completed" -> 9

\* make_url(None, path) with the default host and basepath.
JobUri(id) == << "ipp://defaulthost:631/job/", id >>
PrinterUri == "ipp://defaulthost:631/"

\* lite_job_attributes_for
lite_job_attributes_for(job) ==
    << Attr("job-uri", JobUri(job.id)),
       Attr("job-id", job.id),
       Attr("job-state", JobStateEnum(job.state)),
       Attr("job-state-message", job.state_message),
       Attr("job-state-reasons", job.state_reasons) >>

\* Option<Duration> as an attribute value: NoValue or the seconds.
TimeValue(t) == IF t.some THEN t.v ELSE "no-value"

\* The elements of a sequence of [want, attr] whose want holds, in order.
Wanted(list) ==
    LET selected == SelectSeq(list, LAMBDA x : x.want)
    IN [i \in 1 .. Len(selected) |-> selected[i].attr]

\* A job_attributes_for in which "all" stands for the job description
\* attributes only.
job_attributes_for_description_only(job, requested, up_time) ==
    LET description(name) ==
            "all" \in requested \/ "job-description" \in requested \/ name \in requested
        template(name) == "job-template" \in requested \/ name \in requested
        d(name, value) == [want |-> description(name), attr |-> Attr(name, value)]
        t(name, value) == [want |-> template(name), attr |-> Attr(name, value)]
    IN Wanted(<< d("job-uri", JobUri(job.id)),
                 d("job-id", job.id),
                 d("job-state", JobStateEnum(job.state)),
                 d("job-state-message", job.state_message),
                 d("job-state-reasons", job.state_reasons),
                 d("job-printer-uri", PrinterUri),
                 d("job-name", << "Job #", job.id >>),
                 d("job-originating-user-name", job.attributes.originating_user_name),
                 d("time-at-creation", job.created_at),
                 d("time-at-processing", TimeValue(job.processing_at)),
                 d("time-at-completed", TimeValue(job.completed_at)),
                 d("job-printer-up-time", up_time),
                 t("media", job.attributes.media),
                 t("orientation-requested", "no-value"),
                 t("sides", job.attributes.sides),
                 t("print-color-mode", job.attributes.print_color_mode) >>)

\* job_attributes_for; the template has no orientation and no resolution.
job_attributes_for(job, requested, up_time) ==
    LET all == "all" \in requested
        description(name) == all \/ "job-description" \in requested \/ name \in requested
        template(name) == all \/ "job-template" \in requested \/ name \in requested
        d(name, value) == [want |-> description(name), attr |-> Attr(name, value)]
        t(name, value) == [want |-> template(name), attr |-> Attr(name, value)]
    IN Wanted(<< d("job-uri", JobUri(job.id)),
                 d("job-id", job.id),
                 d("job-state", JobStateEnum(job.state)),
                 d("job-state-message", job.state_message),
                 d("job-state-reasons", job.state_reasons),
                 d("job-printer-uri", PrinterUri),
                 d("job-name", << "Job #", job.id >>),
                 d("job-originating-user-name", job.attributes.originating_user_name),
                 d("time-at-creation", job.created_at),
                 d("time-at-processing", TimeValue(job.processing_at)),
                 d("time-at-completed", TimeValue(job.completed_at)),
                 d("job-printer-up-time", up_time),
                 t("media", job.attributes.media),
                 t("orientation-requested", "no-value"),
                 t("sides", job.attributes.sides),
                 t("print-color-mode", job.attributes.print_color_mode) >>)

\* printer_attributes for the default PrinterInfo: no uuid, no resolution,
\* urf or pwg-raster lists, so those attributes are never pushed.
printer_attributes(requested, up_time) ==
    LET all == "all" \in requested
        a(name, value) == [want |-> all \/ name \in requested, attr |-> Attr(name, value)]
    IN Wanted(<< a("printer-uri-supported", PrinterUri),
                 a("uri-authentication-supported", "requesting-user-name"),
                 a("uri-security-supported", "none"),
                 a("printer-name", "IppServer"),
                 a("printer-state", 3),
                 a("printer-state-reasons", "none"),
                 a("ipp-versions-supported", << "1.0", "1.1", "2.0" >>),
                 a("operations-supported",
                   << PrintJob, ValidateJob, CreateJob, SendDocument, CancelJob,
                      GetJobAttributes, GetJobs, GetPrinterAttributes >>),
                 a("multiple-document-jobs-supported", FALSE),
                 a("charset-configured", "utf-8"),
                 a("charset-supported", "utf-8"),
                 a("natural-language-configured", "en"),
                 a("generated-natural-language-supported", "en"),
                 a("document-format-default", "application/pdf"),
                 a("document-format-supported", << "application/pdf" >>),
                 a("printer-is-accepting-jobs", TRUE),
                 a("pdl-override-supported", "attempted"),
                 a("printer-up-time", up_time),
                 a("compression-supported", << "none", "gzip" >>),
                 a("media-default", media_default),
                 a("media-supported", << "iso_a4_210x297mm" >>),
                 a("orientation-requested-default", "no-value"),
                 a("orientation-requested-supported", << 3 >>),
                 a("sides-default", sides_default),
                 a("sides-supported", << "one-sided" >>),
                 a("print-color-mode-default", print_color_mode_default),
                 a("print-color-mode-supported", << "monochrome", "color" >>),
                 a("document-format-preferred", "application/pdf"),
                 a("pdf-versions-supported",
                   << "adobe-1.2", "adobe-1.3", "adobe-1.4", "adobe-1.5", "adobe-1.6",
                      "adobe-1.7", "iso-19005-1_2005", "iso-32000-1_2008", "pwg-5102.3" >>),
                 a("job-creation-attributes-supported",
                   << "job-name", "media", "orientation-requested", "print-color-mode",
                      "sides" >>),
                 a("printer-info", "IppServer by ippper"),
                 a("printer-make-and-model", "IppServer by ippper") >>)

\* get_requested_attributes
\* A get_requested_attributes that takes an absent attribute for the empty set.
get_requested_attributes_or_empty(q) == IF q.requested.some THEN q.requested.names ELSE {}

get_requested_attributes(q) == IF q.requested.some THEN q.requested.names ELSE { "all" }

\* WhichJob::from(JobState) and the which-jobs keyword of get_jobs.
WhichJobOfState(state) ==
    IF state \in { "Completed", "Canceled", "Aborted" } THEN "completed" ELSE "not-completed"
\* A which-jobs default of "completed" instead of "not-completed".
WhichJobOfKeywordDefaultCompleted(keyword) ==
    IF keyword = "not-completed" THEN "not-completed" ELSE "completed"
WhichJobOfKeyword(keyword) == IF keyword = "completed" THEN "completed" ELSE "not-completed"


\* ------------------------------------------------------------------ actions
\* handle_request returns resp for request r.
Return(r, resp, by, error) ==
    /\ reply' = [r |-> r, req |-> task[r].req, resp |-> resp, by |-> by, error |-> error,
                 job |-> task[r].job, http_req |-> PostIpp, http |-> HttpOk(resp)]
    /\ answered' = [answered EXCEPT ![r] = @ + 1]
    /\ pc' = [pc EXCEPT ![r] = "done"]
    /\ task' = [task EXCEPT ![r] = NoTask]

\* The same for a request answered in the step that receives it.
ReturnAtOnce(r, q, resp, by, error, job) ==
    /\ reply' = [r |-> r, req |-> q, resp |-> resp, by |-> by, error |-> error, job |-> job,
                 http_req |-> PostIpp, http |-> HttpOk(resp)]
    /\ answered' = [answered EXCEPT ![r] = @ + 1]
    /\ pc' = [pc EXCEPT ![r] = "done"]
    /\ UNCHANGED task

\* .unwrap_or_else(|error| self.build_error_response(version, req_id, error))
ErrorResponse(q, error) == build_error_response(q.version, q.request_id, error)

\* The operation method returned Err(error) in the step that received q.
ReturnError(r, q, error) ==
    ReturnAtOnce(r, q, ErrorResponse(q, error), "handle_request", Raised(error), NoJob)

\* Request r arrives (requests are numbered in the order of arrival).
Arrives(r) == pc[r] = "idle" /\ (IF r = 1 THEN TRUE ELSE pc[r - 1] # "idle")

\* handle_request reaches the arm of operation op: the version is accepted
\* and Operation::from_u16 names op.
Dispatched(r, q, op) ==
    /\ Arrives(r)
    /\ check_version(q.version)
    /\ OperationFromU16(q.op) = [some |-> TRUE, op |-> op]

\* handle_request, lines 187-197: the version is rejected.
version_not_supported(r, q) ==
    /\ Arrives(r)
    /\ ~check_version(q.version)
    /\ LET error == IppError(ServerErrorVersionNotSupported,
                             StatusCodeToString(ServerErrorVersionNotSupported))
       IN ReturnAtOnce(r, q, build_error_response(ServerVersion, q.request_id, error),
                       "handle_request", Raised(error), NoJob)
    /\ UNCHANGED << job_id, jobs, job_snapshot, now, allocated, sink_calls >>

\* A dispatcher that looks at the operation code without having checked the
\* version.
unsupported_operation_any_version(r, q) ==
    /\ Arrives(r)
    /\ \/ ~OperationFromU16(q.op).some
       \/ OperationFromU16(q.op).op \notin DispatchedOperations
       \/ OperationFromU16(q.op).op \notin ImplementedOperations
    /\ ReturnError(r, q, operation_not_supported)
    /\ UNCHANGED << job_id, jobs, job_snapshot, now, allocated, sink_calls >>

\* handle_request, lines 199-221: no Operation has the code, the `_` arm, or
\* an arm whose method SimpleIppService leaves at the trait's default.
unsupported_operation(r, q) ==
    /\ Arrives(r)
    /\ check_version(q.version)
    /\ \/ ~OperationFromU16(q.op).some
       \/ OperationFromU16(q.op).op \notin DispatchedOperations
       \/ OperationFromU16(q.op).op \notin ImplementedOperations
    /\ ReturnError(r, q, operation_not_supported)
    /\ UNCHANGED << job_id, jobs, job_snapshot, now, allocated, sink_calls >>

\* A cancel_job that moves the job the request names to Canceled.
acknowledge_and_cancel(r, q) ==
    /\ \/ Dispatched(r, q, ValidateJob)
       \/ Dispatched(r, q, CancelJob)
    /\ ReturnAtOnce(r, q,
           add_basic_attributes(NewResponse(q.version, SuccessfulOk, q.request_id)),
           "handler", NoError, NoJob)
    /\ jobs' = IF q.op = CancelJob /\ find_job(q).ok
               THEN [jobs EXCEPT ![find_job(q).v].state = "Canceled",
                                 ![find_job(q).v].state_message = "Canceled"]
               ELSE jobs
    /\ UNCHANGED << job_id, job_snapshot, now, allocated, sink_calls >>

\* validate_job and cancel_job
acknowledge(r, q) ==
    /\ \/ Dispatched(r, q, ValidateJob)
       \/ Dispatched(r, q, CancelJob)
    /\ ReturnAtOnce(r, q,
           add_basic_attributes(NewResponse(q.version, SuccessfulOk, q.request_id)),
           "handler", NoError, NoJob)
    /\ UNCHANGED << job_id, jobs, job_snapshot, now, allocated, sink_calls >>

\* get_printer_attributes
get_printer_attributes(r, q) ==
    /\ Dispatched(r, q, GetPrinterAttributes)
    /\ ReturnAtOnce(r, q,
           PushGroup(
               add_basic_attributes(NewResponse(q.version, SuccessfulOk, q.request_id)),
               PrinterAttributes,
               printer_attributes(get_requested_attributes(q), uptime)),
           "handler", NoError, NoJob)
    /\ UNCHANGED << job_id, jobs, job_snapshot, now, allocated, sink_calls >>

\* print_job and create_job up to the fetch_add of alloc_job and the JobInfo
\* it builds; the handler then awaits job_snapshot.insert.
alloc_job(r, q, state, state_message) ==
    /\ LET job_attributes == take_ipp_attributes(take_requesting_user_name(q))
           created_at == uptime
           id == FetchAdd(job_id)
       IN /\ job_id' = id.new
          /\ allocated' = Append(allocated, id.old)
          /\ jobs' = StoreJob(jobs,
                         NewJobInfo(id.old, state, state_message, job_attributes, created_at))
          /\ task' = [task EXCEPT ![r] =
                         [NoTask EXCEPT !.req = q, !.job = id.old,
                                        !.job_attributes = job_attributes]]
    /\ pc' = [pc EXCEPT ![r] = "insert"]
    /\ reply' = NoReply
    /\ UNCHANGED << job_snapshot, now, answered, sink_calls >>

print_job_alloc(r, q) ==
    /\ Dispatched(r, q, PrintJob)
    /\ alloc_job(r, q, "Processing", "Processing")

\* A create_job whose job starts in Processing, as print_job's does.
create_job_alloc_processing(r, q) ==
    /\ Dispatched(r, q, CreateJob)
    /\ alloc_job(r, q, "Processing", "Processing")

create_job_alloc(r, q) ==
    /\ Dispatched(r, q, CreateJob)
    /\ alloc_job(r, q, "Pending", "Pending")

\* The sink is called with the document, or the handler returns the error.
HandleDocumentOrReturn(r, q, document) ==
    IF document.ok
    THEN /\ pc' = [pc EXCEPT ![r] = "sink"]
         /\ task' = [task EXCEPT ![r].req = q, ![r].document = document.v]
         /\ sink_calls' = [sink_calls EXCEPT ![r] = @ + 1]
         /\ reply' = NoReply
         /\ UNCHANGED answered
    ELSE /\ reply' = [r |-> r, req |-> q, resp |-> ErrorResponse(q, document.error),
                      by |-> "handle_request", error |-> Raised(document.error),
                      job |-> task[r].job, http_req |-> PostIpp,
                      http |-> HttpOk(ErrorResponse(q, document.error))]
         /\ answered' = [answered EXCEPT ![r] = @ + 1]
         /\ pc' = [pc EXCEPT ![r] = "done"]
         /\ task' = [task EXCEPT ![r] = NoTask]
         /\ UNCHANGED sink_calls

\* print_job from the completion of job_snapshot.insert (alloc_job, line 551)
\* to the call of handle_document (lines 730-745).
print_job_insert(r) ==
    /\ pc[r] = "insert"
    /\ task[r].req.op = PrintJob
    /\ job_snapshot' = job_snapshot \cup { task[r].job }
    /\ HandleDocumentOrReturn(r, task[r].req,
           take_document(task[r].req, task[r].job_attributes))
    /\ UNCHANGED << job_id, jobs, now, allocated >>

\* create_job from the completion of job_snapshot.insert to job.read().
create_job_insert(r) ==
    /\ pc[r] = "insert"
    /\ task[r].req.op = CreateJob
    /\ job_snapshot' = job_snapshot \cup { task[r].job }
    /\ pc' = [pc EXCEPT ![r] = "created"]
    /\ reply' = NoReply
    /\ UNCHANGED << job_id, jobs, now, task, answered, allocated, sink_calls >>

\* create_job, lines 812-820: the response with the job as it is now.
create_job_respond(r) ==
    /\ pc[r] = "created"
    /\ Return(r, PushGroup(
                     add_basic_attributes(
                         NewResponse(task[r].req.version, SuccessfulOk,
                                     task[r].req.request_id)),
                     JobAttributes, lite_job_attributes_for(jobs[task[r].job])),
              "handler", NoError)
    /\ UNCHANGED << job_id, jobs, job_snapshot, now, allocated, sink_calls >>

\* send_document, lines 831-839: the first critical section.
StartProcessing(job, at) ==
    IF job.state # "Processing"
    THEN [job EXCEPT !.state = "Processing", !.state_message = "Processing",
                     !.processing_at = Some(at)]
    ELSE job

\* send_document up to the call of handle_document (lines 823-859).
send_document(r, q) ==
    /\ Dispatched(r, q, SendDocument)
    /\ LET job == find_job(q) IN
       IF ~job.ok
       THEN /\ ReturnError(r, q, job.error)
            /\ UNCHANGED << jobs, sink_calls >>
       ELSE /\ jobs' = [jobs EXCEPT ![job.v] = StartProcessing(@, uptime)]
            /\ LET document == take_document(q, jobs[job.v].attributes) IN
               IF document.ok
               THEN /\ pc' = [pc EXCEPT ![r] = "sink"]
                    /\ task' = [task EXCEPT ![r] =
                                   [NoTask EXCEPT !.req = q, !.job = job.v,
                                        !.job_attributes = jobs[job.v].attributes,
                                        !.document = document.v]]
                    /\ sink_calls' = [sink_calls EXCEPT ![r] = @ + 1]
                    /\ reply' = NoReply
                    /\ UNCHANGED answered
               ELSE /\ ReturnAtOnce(r, q, ErrorResponse(q, document.error),
                                    "handle_request", Raised(document.error), job.v)
                    /\ UNCHANGED sink_calls
    /\ UNCHANGED << job_id, job_snapshot, now, allocated >>

\* A critical section that records the state and leaves completed_at alone.
FinishJobWithoutTime(job, document_handled, at) ==
    [job EXCEPT
        !.state = IF document_handled.ok THEN "Completed" ELSE "Aborted",
        !.state_message = IF document_handled.ok THEN "Completed"
                          ELSE AbortedMessage(document_handled.error)]

\* print_job lines 746-756 and send_document lines 861-871: the critical
\* section that records how the sink ended.
FinishJob(job, document_handled, at) ==
    [job EXCEPT
        !.state = IF document_handled.ok THEN "Completed" ELSE "Aborted",
        !.state_message = IF document_handled.ok THEN "Completed"
                          ELSE AbortedMessage(document_handled.error),
        !.completed_at = Some(at)]

\* handle_document returns document_handled and the handler records it.
handle_document_returns(r, document_handled) ==
    /\ pc[r] = "sink"
    /\ jobs' = [jobs EXCEPT ![task[r].job] = FinishJob(@, document_handled, uptime)]
    /\ task' = [task EXCEPT ![r].document = NoDocument,
                            ![r].document_handled = document_handled]
    /\ pc' = [pc EXCEPT ![r] = "respond"]
    /\ reply' = NoReply
    /\ UNCHANGED << job_id, job_snapshot, now, answered, allocated, sink_calls >>

\* A response to a failed document that is the error response alone.
JobResponseErrorAlone(q, document_handled, job) ==
    IF ~document_handled.ok
    THEN build_error_response(q.version, q.request_id, document_handled.error)
    ELSE PushGroup(
             add_basic_attributes(NewResponse(q.version, SuccessfulOk, q.request_id)),
             JobAttributes, lite_job_attributes_for(job))

\* print_job lines 758-770 and send_document lines 873-885.
JobResponse(q, document_handled, job) ==
    PushGroup(
        add_basic_attributes(
            IF ~document_handled.ok
            THEN build_error_response(q.version, q.request_id, document_handled.error)
            ELSE NewResponse(q.version, SuccessfulOk, q.request_id)),
        JobAttributes, lite_job_attributes_for(job))

document_respond(r) ==
    /\ pc[r] = "respond"
    /\ Return(r, JobResponse(task[r].req, task[r].document_handled, jobs[task[r].job]),
              "handler",
              IF task[r].document_handled.ok THEN NoError
              ELSE Raised(task[r].document_handled.error))
    /\ UNCHANGED << job_id, jobs, job_snapshot, now, allocated, sink_calls >>

\* get_job_attributes
get_job_attributes(r, q) ==
    /\ Dispatched(r, q, GetJobAttributes)
    /\ LET job == find_job(q) IN
       IF ~job.ok
       THEN ReturnError(r, q, job.error)
       ELSE ReturnAtOnce(r, q,
                PushGroup(
                    add_basic_attributes(
                        NewResponse(q.version, SuccessfulOk, q.request_id)),
                    JobAttributes,
                    job_attributes_for(jobs[job.v], get_requested_attributes(q), uptime)),
                "handler", NoError, job.v)
    /\ UNCHANGED << job_id, jobs, job_snapshot, now, allocated, sink_calls >>

\* get_jobs, lines 917-946: the response before the loop, and the iterator
\* over the cache (the keys it will visit).
get_jobs(r, q) ==
    /\ Dispatched(r, q, GetJobs)
    /\ LET resp == add_basic_attributes(NewResponse(q.version, SuccessfulOk, q.request_id)) IN
       IF job_snapshot = {}
       THEN ReturnAtOnce(r, q, resp, "handler", NoError, NoJob)
       ELSE /\ pc' = [pc EXCEPT ![r] = "iter"]
            /\ task' = [task EXCEPT ![r] =
                           [NoTask EXCEPT !.req = q, !.resp = resp, !.todo = job_snapshot]]
            /\ reply' = NoReply
            /\ UNCHANGED answered
    /\ UNCHANGED << job_id, jobs, job_snapshot, now, allocated, sink_calls >>

\* get_jobs, lines 948-964: one turn of the loop, on the entry the iterator
\* yields next (in no particular order); the response when the loop ends.
\* An entry the cache dropped while the iterator was alive is yielded or
\* skipped, as the cache decides.
get_jobs_next(r, id) ==
    /\ pc[r] = "iter"
    /\ id \in task[r].todo
    /\ \E yielded \in (IF id \in job_snapshot THEN { TRUE } ELSE BOOLEAN) :
       LET q == task[r].req
           job == jobs[id]
           match == yielded /\ WhichJobOfKeyword(q.which_jobs) = WhichJobOfState(job.state)
           resp == IF match
                   THEN PushGroup(task[r].resp, JobAttributes,
                            job_attributes_for(job, get_requested_attributes(q), uptime))
                   ELSE task[r].resp
           count == IF match THEN task[r].count + 1 ELSE task[r].count
           break == match /\ q.limit.some /\ count >= q.limit.v
       IN IF break \/ task[r].todo = { id }
          THEN Return(r, resp, "handler", NoError)
          ELSE /\ task' = [task EXCEPT ![r].resp = resp, ![r].count = count,
                                       ![r].todo = @ \ { id }]
               /\ reply' = NoReply
               /\ UNCHANGED << pc, answered >>
    /\ UNCHANGED << job_id, jobs, job_snapshot, now, allocated, sink_calls >>

\* The cache drops an entry: its time to live of 15 minutes is over, or the
\* cache holds more than 1000 entries (lines 179-181). Handlers that hold
\* the job's RwLock keep it.
Evict(id) ==
    /\ id \in job_snapshot
    /\ job_snapshot' = job_snapshot \ { id }
    /\ UNCHANGED << job_id, jobs, now, pc, task, reply, answered, allocated, sink_calls >>

\* Time passes.
Tick ==
    /\ now < MaxTime
    /\ now' = now + 1
    /\ reply' = NoReply
    /\ UNCHANGED << job_id, jobs, job_snapshot, pc, task, answered, allocated, sink_calls >>

\* One step of the handler of request r after the request has been received.
StepOf(r) ==
    \/ print_job_insert(r)
    \/ create_job_insert(r)
    \/ create_job_respond(r)
    \/ \E result \in SinkResults : handle_document_returns(r, result)
    \/ document_respond(r)
    \/ \E id \in DOMAIN jobs : get_jobs_next(r, id)

Step == \E r \in Reqs : StepOf(r)

\* handle_request is called with request q.
Receive(r, q) ==
    \/ version_not_supported(r, q)
    \/ unsupported_operation(r, q)
    \/ acknowledge(r, q)
    \/ get_printer_attributes(r, q)
    \/ print_job_alloc(r, q)
    \/ create_job_alloc(r, q)
    \/ send_document(r, q)
    \/ get_job_attributes(r, q)
    \/ get_jobs(r, q)

\* The transport takes the response handle_request returned.
Deliver ==
    /\ reply # NoReply
    /\ reply' = NoReply
    /\ UNCHANGED << job_id, jobs, job_snapshot, now, pc, task, answered, allocated, sink_calls >>

\* Overlapping requests: a request may arrive while others are being handled.
\* All of it happens within one reading of the clock.
Next ==
    /\ \/ /\ reply = NoReply
          /\ \/ \E r \in Reqs : Arrives(r) /\ \E q \in OverlapRequests : Receive(r, q)
             \/ Step
       \/ Deliver
    /\ UNCHANGED << reader_vars, stream_vars, locking >>

Spec == Init /\ [][Next]_vars

\* The same while time passes.
NextClock ==
    \/ Next
    \/ reply = NoReply /\ Tick /\ UNCHANGED << reader_vars, stream_vars, locking >>

SpecClock == Init /\ [][NextClock]_vars

\* One client that waits for each response before it sends the next request,
\* and sends any request; again within one reading of the clock.
NoneInFlight == \A r \in Reqs : pc[r] \in { "idle", "done" }

NextSeq ==
    /\ \/ /\ reply = NoReply
          /\ \/ \E r \in Reqs :
                   Arrives(r) /\ NoneInFlight /\ \E q \in AllRequests : Receive(r, q)
             \/ Step
       \/ Deliver
    /\ UNCHANGED << reader_vars, stream_vars, locking >>

SpecSeq == Init /\ [][NextSeq]_vars

\* handle_ipp_via_http returns before it calls handle_request.
HttpReturnsEarly(r, h) ==
    /\ Arrives(r)
    /\ handle_ipp_via_http_early(h).some
    /\ reply' = [NoReply EXCEPT !.r = r, !.http_req = h,
                                !.http = handle_ipp_via_http_early(h).v]
    /\ pc' = [pc EXCEPT ![r] = "done"]
    /\ UNCHANGED << job_id, jobs, job_snapshot, now, task, answered, allocated, sink_calls >>

\* One client behind the HTTP front end: it sends any HTTP request and waits
\* for the response; a POST of application/ipp whose body parses carries any
\* of the IPP requests.
NextHttp ==
    /\ \/ /\ reply = NoReply
          /\ \/ \E r \in Reqs :
                   /\ Arrives(r)
                   /\ NoneInFlight
                   /\ \/ \E q \in AllRequests :
                             ~handle_ipp_via_http_early(PostIpp).some /\ Receive(r, q)
                      \/ \E h \in HttpRequests : HttpReturnsEarly(r, h)
             \/ Step
       \/ Deliver
    /\ UNCHANGED << reader_vars, stream_vars, locking >>

SpecHttp == Init /\ [][NextHttp]_vars

\* The operations that allocate jobs or look them up in the cache.
ReceiveJobOperation(r, q) ==
    \/ print_job_alloc(r, q)
    \/ create_job_alloc(r, q)
    \/ send_document(r, q)
    \/ get_job_attributes(r, q)
    \/ get_jobs(r, q)

\* One client that sends those operations and waits for each response, while
\* the cache drops entries.
NextEvict ==
    /\ \/ /\ reply = NoReply
          /\ \/ \E r \in Reqs :
                   /\ Arrives(r)
                   /\ NoneInFlight
                   /\ \E q \in JobRequests : ReceiveJobOperation(r, q)
             \/ Step
             \/ \E id \in job_snapshot : Evict(id)
       \/ Deliver
    /\ UNCHANGED << reader_vars, stream_vars, locking >>

SpecEvict == Init /\ [][NextEvict]_vars

\* Overlapping clients that create jobs with Create-Job only, send documents
\* to them and read them.
DocumentRequests ==
    LET q(op) == Request(ServerVersion, op, 1) IN
    { q(CreateJob) }
      \cup { [q(op) EXCEPT !.job_id = IntJobId(FirstJobId)] :
                op \in { SendDocument, GetJobAttributes } }

ReceiveDocumentOperation(r, q) ==
    \/ create_job_alloc(r, q)
    \/ send_document(r, q)
    \/ get_job_attributes(r, q)

NextDocuments ==
    /\ \/ /\ reply = NoReply
          /\ \/ \E r \in Reqs :
                   Arrives(r) /\ \E q \in DocumentRequests : ReceiveDocumentOperation(r, q)
             \/ Step
       \/ Deliver
    /\ UNCHANGED << reader_vars, stream_vars, locking >>

SpecDocuments == Init /\ [][NextDocuments]_vars
\* Body::empty(), Body::from(bytes) and Body::from(t: IppRequestResponse).
InitBody ==
    /\ InitService
    /\ body = << >>
    /\ chunk = NoChunk
    /\ got = << >>
    /\ read = NoRead
    /\ inner \in BodyValues
    /\ reader_stream =
          IF inner.kind = "IppRequestResponse"
          THEN ReaderStreamNew(inner.t.payload) ELSE NoReaderStream
    /\ items = << >>
    /\ stream_items = << >>
    /\ polled = << >>
    /\ locking = NoLocking

\* Handlers that go through their lock operations, in any interleaving.
InitLocks ==
    /\ InitService
    /\ body = << >>
    /\ chunk = NoChunk
    /\ got = << >>
    /\ read = NoRead
    /\ NoStream
    /\ locking \in Handlers

\* BodyReader::poll_read with a buf of buf_len bytes, when the inner body
\* does not answer Pending.
poll_read(buf_len) ==
    IF chunk.some
    THEN LET data == chunk.v
             len == Min(Len(data), buf_len)
         IN /\ got' = got \o SubSeq(data, 1, len)
            /\ chunk' = replace_chunk(data, len)
            /\ read' = ReadOk(SubSeq(data, 1, len), buf_len, "chunk")
            /\ UNCHANGED body
    ELSE LET frames == SubSeq(body, LeadingTrailers(body) + 1, Len(body)) IN
         IF frames = << >>
         THEN /\ read' = ReadOk(<< >>, buf_len, "frame")
              /\ body' = << >>
              /\ UNCHANGED << chunk, got >>
         ELSE IF Head(frames).kind = "error"
         THEN /\ read' = ReadErr(buf_len, << "Other", "Error reading body: ", "e" >>)
              /\ body' = Tail(frames)
              /\ UNCHANGED << chunk, got >>
         ELSE LET data == Head(frames).data
                  len == Min(Len(data), buf_len)
              IN /\ got' = got \o SubSeq(data, 1, len)
                 /\ chunk' = replace_chunk(data, len)
                 /\ read' = ReadOk(SubSeq(data, 1, len), buf_len, "frame")
                 /\ body' = Tail(frames)

\* poll_read when poll_frame answers Pending (line 68), at once or after
\* frames that are not data: nothing is returned and nothing is kept.
poll_read_pending(buf_len, skipped) ==
    /\ ~chunk.some
    /\ body # << >>
    /\ skipped <= LeadingTrailers(body)
    /\ body' = SubSeq(body, skipped + 1, Len(body))
    /\ read' = ReadPending(buf_len)
    /\ UNCHANGED << chunk, got >>

\* A reader over any body, read with any sequence of buffer sizes.
NextReader ==
    /\ \/ \E buf_len \in BufferSizes : poll_read(buf_len)
       \/ \E buf_len \in BufferSizes, skipped \in 0 .. MaxFrames :
              poll_read_pending(buf_len, skipped)
    /\ UNCHANGED << service_vars, stream_vars, locking >>

SpecReader == InitReader /\ [][NextReader]_vars

\* Body::poll_next over BodyInner::Bytes: bytes.take().map(Ok)
poll_next_bytes ==
    /\ inner.kind = "Bytes"
    /\ items' = Append(items, IF inner.slot.some THEN ItemOk(inner.slot.v) ELSE ItemNone)
    /\ inner' = [inner EXCEPT !.slot = take(inner.slot)]
    /\ UNCHANGED << reader_stream, stream_items, polled >>

\* Body::poll_next over BodyInner::IppRequestResponse while the header is there.
poll_next_header ==
    /\ inner.kind = "IppRequestResponse"
    /\ inner.slot.some
    /\ items' = Append(items, ItemOk(inner.slot.v))
    /\ inner' = [inner EXCEPT !.slot = take(inner.slot)]
    /\ UNCHANGED << reader_stream, stream_items, polled >>

\* Body::poll_next over BodyInner::IppRequestResponse once the header is
\* taken: pin!(payload).poll_next(cx)
poll_next_payload ==
    /\ inner.kind = "IppRequestResponse"
    /\ ~inner.slot.some
    /\ \E o \in ReaderStream_poll_next(reader_stream) :
          /\ reader_stream' = o.rs
          /\ items' = Append(items, o.item)
          /\ stream_items' = Append(stream_items, o.item)
          /\ polled' = polled \o o.polls
    /\ UNCHANGED inner

\* Body::poll_next over BodyInner::Empty
poll_next_empty ==
    /\ inner.kind = "Empty"
    /\ items' = Append(items, ItemNone)
    /\ UNCHANGED << inner, reader_stream, stream_items, polled >>

\* A Body of any shape, polled up to MaxPolls times.
NextBody ==
    /\ Len(items) < MaxPolls
    /\ \/ poll_next_bytes
       \/ poll_next_header
       \/ poll_next_payload
       \/ poll_next_empty
    /\ UNCHANGED << service_vars, reader_vars, locking >>

SpecBody == InitBody /\ [][NextBody]_vars

\* job.write().await or job.read().await returns the guard.
lock_acquire(r) ==
    /\ locking[r].todo # << >>
    /\ LET o == Head(locking[r].todo) IN
       /\ o.op \in { "write", "read" }
       /\ Granted(r, o.op, o.job)
       /\ locking' = [locking EXCEPT ![r].todo = Tail(@),
                                     ![r].held = @ \cup { << o.op, o.job >> }]

\* The guard is dropped.
lock_release(r) ==
    /\ locking[r].todo # << >>
    /\ LET o == Head(locking[r].todo) IN
       /\ o.op = "unlock"
       /\ locking' = [locking EXCEPT ![r].todo = Tail(@),
                                     ![r].held = { h \in @ : h[2] # o.job }]

\* self.handler.handle_document(..) is called, and returns.
sink_call(r) ==
    /\ locking[r].todo # << >>
    /\ Head(locking[r].todo).op = "call"
    /\ locking' = [locking EXCEPT ![r].todo = Tail(@),
                                  ![r].in_sink = Head(locking[r].todo).job]

sink_return(r) ==
    /\ locking[r].todo # << >>
    /\ Head(locking[r].todo).op = "return"
    /\ locking' = [locking EXCEPT ![r].todo = Tail(@), ![r].in_sink = NoJob]

NextLocks ==
    /\ \E r \in Reqs :
          \/ lock_acquire(r)
          \/ lock_release(r)
          \/ sink_call(r)
          \/ sink_return(r)
    /\ UNCHANGED << service_vars, reader_vars, stream_vars >>

SpecLocks == InitLocks /\ [][NextLocks]_vars

\* ===================================================================
\* Properties of the dispatcher (IppService::handle_request)

ReplyStatus == reply.resp.status
ReplyOperationAttributes == GroupAttrs(reply.resp, OperationAttributes)

\* C1: every parsed request is answered by exactly one response, whatever its
\* version and operation and whether the handler succeeded or failed, and the
\* response carries the request's request_id.  At most one response is ever
\* returned for a request, a request is finished exactly when its response
\* has been returned, a handler that has not returned yet holds what its next
\* step reads (its job is in the cache, its iterator has an entry left), and
\* the id of a response is the id of its request.
C1_OneResponseWithRequestId ==
    /\ \A r \in Reqs :
          /\ answered[r] <= 1
          /\ (pc[r] = "done") <=> (answered[r] = 1)
          /\ pc[r] \in { "insert", "created", "sink", "respond" } =>
                 task[r].job \in DOMAIN jobs
          /\ pc[r] = "iter" => task[r].todo # {} /\ task[r].todo \subseteq DOMAIN jobs
    /\ reply # NoReply =>
          /\ reply.resp.request_id = reply.req.request_id
          /\ answered[reply.r] = 1

\* An error response to a request whose id is 77 has been returned.
C1_Witness ==
    /\ reply # NoReply
    /\ reply.req.request_id = 77
    /\ reply.error.some
    /\ answered[reply.r] = 1

\* C2 as amended: the answer is server-error-version-not-supported exactly
\* when the version of the request, read as (major, minor), is greater than
\* the server's: a greater major version, or the same major version with a
\* greater minor version.
C2_WholeVersionCompared ==
    reply # NoReply =>
        LET v == reply.req.version
        IN (ReplyStatus = ServerErrorVersionNotSupported)
              <=> \/ Major(v) > Major(ServerVersion)
                  \/ Major(v) = Major(ServerVersion) /\ Minor(v) > Minor(ServerVersion)

\* A 2.1 request has been rejected by the 2.0 server.
C2_Witness ==
    /\ reply # NoReply
    /\ reply.req.version = Ver(2, 1)
    /\ ReplyStatus = ServerErrorVersionNotSupported

\* C2 as stated: the version is rejected when the major version of the
\* request is greater than the server's, and only then: a request with the
\* same major version and a greater minor version is not rejected.
C2_MajorVersionOnly ==
    reply # NoReply =>
        ((ReplyStatus = ServerErrorVersionNotSupported)
            <=> (Major(reply.req.version) > Major(ServerVersion)))

\* C3: a version-accepted request is answered server-error-operation-not-supported
\* when its operation code is no known operation, and when it names one of the
\* dispatched operations SimpleIppService does not override: Print-URI,
\* Send-URI, Hold-Job, Release-Job, Restart-Job, Pause-Printer, Resume-Printer,
\* Purge-Jobs.
C3_OperationNotSupported ==
    (/\ reply # NoReply
     /\ reply.req.version <= ServerVersion
     /\ \/ reply.req.op \in { UnknownOperation, CupsGetDefault }
        \/ reply.req.op \in { PrintUri, SendUri, HoldJob, ReleaseJob, RestartJob,
                              PausePrinter, ResumePrinter, PurgeJobs })
    => /\ ReplyStatus = ServerErrorOperationNotSupported
       /\ reply.by = "handle_request"

\* A version-accepted Purge-Jobs request has been answered.
C3_Witness ==
    /\ reply # NoReply
    /\ reply.req.version = Ver(1, 1)
    /\ reply.req.op = PurgeJobs
    /\ ReplyStatus = ServerErrorOperationNotSupported

\* C4: a response built from an error has the IppError's own status code when
\* the error is an IppError (the code is never replaced), and
\* server-error-internal-error with the error's string as status-message for
\* every other error.
C4_ErrorStatus ==
    (reply # NoReply /\ reply.error.some) =>
        LET error == reply.error.error
        IN IF error.ipp
           THEN /\ ReplyStatus = error.code
                /\ HasAttr(ReplyOperationAttributes, "status-message", error.msg)
           ELSE /\ ReplyStatus = ServerErrorInternalError
                /\ HasAttr(ReplyOperationAttributes, "status-message", ErrorToString(error))

\* A response built from an IppError whose code is none of the dispatcher's
\* own has been returned.
C4_Witness ==
    /\ reply # NoReply
    /\ reply.error.some
    /\ reply.error.error.ipp
    /\ reply.error.error.code = ServerErrorBusy
    /\ ReplyStatus = ServerErrorBusy

\* C5: every response whose status is not successful-ok carries a
\* status-message in its operation-attributes group.
C5_StatusMessage ==
    (reply # NoReply /\ ReplyStatus # SuccessfulOk) =>
        HasAttrNamed(ReplyOperationAttributes, "status-message")

\* A response that is not successful-ok because the job's document was not
\* found has been returned.
C5_Witness ==
    /\ reply # NoReply
    /\ ReplyStatus = ClientErrorNotFound
    /\ HasAttrNamed(ReplyOperationAttributes, "status-message")

C7_BasicAttributesFirst ==
    (reply # NoReply /\ ReplyStatus = SuccessfulOk) =>
        /\ Len(ReplyOperationAttributes) >= 2
        /\ ReplyOperationAttributes[1] = Attr("attributes-charset", "utf-8")
        /\ ReplyOperationAttributes[2] = Attr("attributes-natural-language", "en")

\* A successful-ok response to Print-Job, with its job-attributes group, has
\* been returned.
C7_Witness ==
    /\ reply # NoReply
    /\ reply.req.op = PrintJob
    /\ ReplyStatus = SuccessfulOk
    /\ GroupAttrs(reply.resp, JobAttributes) # <<>>

\* ===================================================================
\* Properties of the jobs of SimpleIppService

\* C8: under any interleaving of overlapping Print-Job and Create-Job
\* requests every allocated job id is at least 1000, no two allocations
\* return the same id (so no job in the cache is replaced by another), ids
\* are handed out in increasing order of the fetch_add, and the first
\* allocation gets 1000.
C8_JobIds ==
    /\ \A i \in 1 .. Len(allocated) : allocated[i] >= FirstJobId
    /\ \A i, j \in 1 .. Len(allocated) : i # j => allocated[i] # allocated[j]
    /\ \A i, j \in 1 .. Len(allocated) : i < j => allocated[i] < allocated[j]
    /\ Len(allocated) >= 1 => allocated[1] = FirstJobId
    /\ DOMAIN jobs = { allocated[i] : i \in 1 .. Len(allocated) }
    /\ \A id \in DOMAIN jobs : jobs[id].id = id

\* A Print-Job and a Create-Job overlap: both have done their fetch_add and
\* neither has finished its insert into the cache.
C8_Witness ==
    \E r1, r2 \in Reqs :
        /\ pc[r1] = "insert" /\ task[r1].req.op = PrintJob
        /\ pc[r2] = "insert" /\ task[r2].req.op = CreateJob
        /\ task[r1].job # task[r2].job
        /\ Len(allocated) >= 2

\* C9 as stated: for every job in the cache, in every reachable state,
\* created_at <= processing_at (when set) <= completed_at (when set), several
\* Send-Document requests to the same job included.
C9_TimesOrdered ==
    \A id \in job_snapshot :
        LET job == jobs[id] IN
        /\ job.processing_at.some => job.created_at <= job.processing_at.v
        /\ job.completed_at.some => job.created_at <= job.completed_at.v
        /\ (job.processing_at.some /\ job.completed_at.some) =>
               job.processing_at.v <= job.completed_at.v

\* C10 as stated: the state of a job changes only along Pending -> Processing,
\* Processing -> Completed and Processing -> Aborted, so a job that is
\* Completed or Aborted never changes state again.
C10_LifecycleEdges ==
    [][\A id \in DOMAIN jobs :
          jobs'[id].state # jobs[id].state =>
              << jobs[id].state, jobs'[id].state >> \in
                  { << "Pending", "Processing" >>,
                    << "Processing", "Completed" >>,
                    << "Processing", "Aborted" >> }]_vars

\* ===================================================================
\* Properties of the document operations (Print-Job, Send-Document)

ReplyJobAttributes == GroupAttrs(reply.resp, JobAttributes)

\* C11: in every state a reader of a job can observe through the job's lock,
\* a job whose state is Completed or Aborted has completed_at set.
C11_FinishedJobHasCompletedAt ==
    \A id \in DOMAIN jobs :
        jobs[id].state \in { "Completed", "Aborted" } => jobs[id].completed_at.some

\* A job is Aborted while the handler that aborted it has not answered yet
\* and another handler works on a job.
C11_Witness ==
    \E r1, r2 \in Reqs :
        /\ pc[r1] = "respond"
        /\ jobs[task[r1].job].state = "Aborted"
        /\ jobs[task[r1].job].completed_at.some
        /\ pc[r2] \in { "insert", "sink" }

\* C12: when handle_document has returned for a Print-Job or Send-Document,
\* and before the response is built, the job is Completed with state_message
\* "Completed" if the sink returned Ok and Aborted with state_message
\* "Aborted: {err}" if it returned an error, and completed_at is set; on a
\* sink error the response is an error response that carries the
\* job-attributes group showing the Aborted state.
C12_SinkOutcomeRecorded ==
    /\ \A r \in Reqs :
          pc[r] = "respond" =>
              LET job == jobs[task[r].job]
                  document_handled == task[r].document_handled
              IN /\ task[r].req.op \in { PrintJob, SendDocument }
                 /\ job.completed_at.some
                 /\ IF document_handled.ok
                    THEN job.state = "Completed" /\ job.state_message = "Completed"
                    ELSE /\ job.state = "Aborted"
                         /\ job.state_message = AbortedMessage(document_handled.error)
    /\ (reply # NoReply /\ reply.by = "handler" /\ reply.error.some) =>
          /\ reply.req.op \in { PrintJob, SendDocument }
          /\ ReplyStatus # SuccessfulOk
          /\ HasAttrNamed(ReplyOperationAttributes, "status-message")
          /\ HasAttr(ReplyJobAttributes, "job-id", reply.job)
          /\ HasAttr(ReplyJobAttributes, "job-state", 8)
          /\ HasAttr(ReplyJobAttributes, "job-state-message",
                     AbortedMessage(reply.error.error))

\* The sink failed with "disk full" for a Send-Document and the response has
\* been returned.
C12_Witness ==
    /\ reply # NoReply
    /\ reply.req.op = SendDocument
    /\ reply.error = Raised(OtherError("disk full"))
    /\ ReplyStatus = ServerErrorInternalError
    /\ HasAttr(ReplyJobAttributes, "job-state-message", "Aborted: disk full")
    /\ jobs[reply.job].state = "Aborted"

\* C13 as stated: whenever the sink succeeds for a Print-Job the response is
\* successful-ok and its job-attributes group reports that job's id with
\* job-state Completed (9) and job-state-message "Completed", whatever other
\* requests run at the same time.
C13_PrintJobReportsCompleted ==
    (/\ reply # NoReply
     /\ reply.req.op = PrintJob
     /\ reply.by = "handler"
     /\ ~reply.error.some)
    => /\ ReplyStatus = SuccessfulOk
       /\ HasAttr(ReplyJobAttributes, "job-id", reply.job)
       /\ HasAttr(ReplyJobAttributes, "job-state", 9)
       /\ HasAttr(ReplyJobAttributes, "job-state-message", "Completed")

\* The request is a Print-Job or Send-Document that handle_request
\* dispatches.
DocumentRequest(q) == q.version <= ServerVersion /\ q.op \in { PrintJob, SendDocument }

\* The request names, as an integer job-id, a job the cache holds.
NamesCachedJob(q) == q.job_id.tag = "integer" /\ q.job_id.int \in job_snapshot

\* C14: a Print-Job or Send-Document whose compression is absent or "none"
\* hands the payload to the sink unchanged, "gzip" hands it a gzip decoder
\* around the payload, and any other keyword is answered with
\* client-error-compression-not-supported and a status-message (when the job
\* lookup and the document-format check let the request come that far)
\* without the sink being invoked.
C14_Compression ==
    /\ \A r \in Reqs :
          pc[r] = "sink" =>
              LET compression == task[r].req.compression IN
              /\ compression \in { Absent, "none", "gzip" }
              /\ compression \in { Absent, "none" } => task[r].document.payload = "payload"
              /\ compression = "gzip" => task[r].document.payload = "GzipDecoder(payload)"
    /\ (/\ reply # NoReply
        /\ DocumentRequest(reply.req)
        /\ reply.req.compression \notin { Absent, "none", "gzip" })
       => /\ sink_calls[reply.r] = 0
          /\ ReplyStatus # SuccessfulOk
          /\ HasAttrNamed(ReplyOperationAttributes, "status-message")
          /\ (/\ reply.req.op = SendDocument => NamesCachedJob(reply.req)
              /\ ~(/\ reply.req.document_format.tag = "mimeMediaType"
                    /\ reply.req.document_format.text \notin document_format_supported))
             => ReplyStatus = ClientErrorCompressionNotSupported

\* A Print-Job with compression "deflate" and an accepted document-format has
\* been answered.
C14_Witness ==
    /\ reply # NoReply
    /\ reply.req.op = PrintJob
    /\ reply.req.compression = "deflate"
    /\ reply.req.document_format = MimeMediaType("application/pdf")
    /\ ReplyStatus = ClientErrorCompressionNotSupported
    /\ sink_calls[reply.r] = 0

\* The format the sink gets, and that a request is rejected for its
\* document-format, when the formats rejected are the unsupported ones sent
\* with one of the syntaxes in Syntaxes.
DocumentFormatChecked(Syntaxes) ==
    LET Rejected(attr) ==
            attr.tag \in Syntaxes /\ attr.text \notin document_format_supported
    IN
    /\ \A r \in Reqs :
          pc[r] = "sink" =>
              LET attr == task[r].req.document_format IN
              /\ ~Rejected(attr)
              /\ task[r].document.format =
                     IF attr.tag = "mimeMediaType" THEN attr.text ELSE Absent
    /\ (/\ reply # NoReply
        /\ DocumentRequest(reply.req)
        /\ reply.req.op = SendDocument => NamesCachedJob(reply.req)
        /\ Rejected(reply.req.document_format))
       => /\ ReplyStatus = ClientErrorDocumentFormatNotSupported
          /\ sink_calls[reply.r] = 0

\* C15 as amended: a Print-Job or Send-Document whose document-format
\* attribute is present with a mimeMediaType value that is not a member of
\* document_format_supported is answered with
\* client-error-document-format-not-supported and the sink is not invoked; the
\* value is read from the document-format attribute, and an absent
\* document-format, like one whose value is not a mimeMediaType, is accepted
\* with format = None.
C15_DocumentFormat ==
    DocumentFormatChecked({ "mimeMediaType" })

\* A Send-Document for a cached job with document-format "image/urf" has been
\* rejected.
C15_Witness ==
    /\ reply # NoReply
    /\ reply.req.op = SendDocument
    /\ reply.req.document_format = MimeMediaType("image/urf")
    /\ ReplyStatus = ClientErrorDocumentFormatNotSupported
    /\ sink_calls[reply.r] = 0

\* C15 as stated: every document-format attribute that is present and not a
\* member of document_format_supported is rejected.
C15_AnyPresentDocumentFormat ==
    DocumentFormatChecked({ "mimeMediaType", "keyword" })

\* C16: the handler of a Print-Job or Send-Document calls handle_document
\* exactly once if the request passes the job lookup, the document-format
\* check and the compression check, and never otherwise; no request causes
\* two calls, and no other operation causes one.
C16_SinkCalledOnce ==
    /\ \A r \in Reqs :
          /\ sink_calls[r] <= 1
          /\ pc[r] \in { "sink", "respond" } => sink_calls[r] = 1
          /\ pc[r] \in { "idle", "insert", "created", "iter" } => sink_calls[r] = 0
    /\ reply # NoReply =>
          LET q == reply.req
              passes ==
                  /\ DocumentRequest(q)
                  /\ q.op = SendDocument => NamesCachedJob(q)
                  /\ ~(q.document_format.tag = "mimeMediaType"
                         /\ q.document_format.text \notin document_format_supported)
                  /\ q.compression \in { Absent, "none", "gzip" }
          IN sink_calls[reply.r] = IF passes THEN 1 ELSE 0

\* A Send-Document that passed the three checks has been answered after one
\* call of the sink.
C16_Witness ==
    /\ reply # NoReply
    /\ reply.req.op = SendDocument
    /\ reply.req.compression = "gzip"
    /\ sink_calls[reply.r] = 1

\* C17: a Send-Document or Get-Job-Attributes (of an accepted version) whose
\* job-id is missing, is not an integer, or is an integer the cache does not
\* hold when the request is handled (never allocated, or dropped by the cache
\* since), is answered in that step with client-error-not-found; the step
\* changes no job, neither the cache nor the counter, and calls no sink.
C17_NotFound ==
    [][\A r \in Reqs :
          (pc[r] = "idle" /\ pc'[r] # "idle") =>
              LET q == IF pc'[r] = "done" THEN reply'.req ELSE task'[r].req IN
              (/\ q.op \in { SendDocument, GetJobAttributes }
               /\ check_version(q.version)
               /\ ~NamesCachedJob(q))
              => /\ pc'[r] = "done"
                 /\ reply'.r = r
                 /\ ReplyStatus' = ClientErrorNotFound
                 /\ jobs' = jobs
                 /\ job_snapshot' = job_snapshot
                 /\ job_id' = job_id
                 /\ sink_calls' = sink_calls
    ]_vars

\* A Send-Document for a job that Create-Job allocated and the cache has
\* dropped since is answered with client-error-not-found, and the job is still
\* Pending.
C17_Witness ==
    /\ reply # NoReply
    /\ reply.req.op = SendDocument
    /\ reply.req.job_id.tag = "integer"
    /\ reply.req.job_id.int \in DOMAIN jobs
    /\ reply.req.job_id.int \notin job_snapshot
    /\ jobs[reply.req.job_id.int].state = "Pending"
    /\ ReplyStatus = ClientErrorNotFound
    /\ sink_calls[reply.r] = 0

\* C18: with one client that waits for each response. The attributes
\* Create-Job records for its job are those of the Create-Job request and
\* never change afterwards; a Send-Document for job j calls the sink with
\* the attributes recorded for j, not with those of its own request; j is
\* Processing from the call of the sink until the sink returns; when the
\* sink returns Ok, j becomes Completed, and the response is successful-ok
\* with job-id j and job-state 9 (Completed).
C18_SendDocumentAfterCreateJob ==
    [][/\ \A j \in DOMAIN jobs : jobs'[j].attributes = jobs[j].attributes
       /\ \A r \in Reqs :
             /\ (pc[r] = "idle" /\ pc'[r] = "insert" /\ task'[r].req.op = CreateJob) =>
                    jobs'[task'[r].job].attributes =
                        take_ipp_attributes(take_requesting_user_name(task'[r].req))
             /\ (pc[r] = "idle" /\ pc'[r] = "sink" /\ task'[r].req.op = SendDocument) =>
                    /\ task'[r].job = task'[r].req.job_id.int
                    /\ task'[r].document.job_attributes = jobs[task'[r].job].attributes
             /\ (pc'[r] = "sink" /\ task'[r].req.op = SendDocument) =>
                    jobs'[task'[r].job].state = "Processing"
             /\ (/\ pc[r] = "sink"
                 /\ pc'[r] = "respond"
                 /\ task[r].req.op = SendDocument
                 /\ task'[r].document_handled.ok) =>
                    jobs'[task[r].job].state = "Completed"
       /\ (/\ reply' # NoReply
           /\ reply'.req.op = SendDocument
           /\ reply'.by = "handler"
           /\ ~reply'.error.some) =>
              /\ ReplyStatus' = SuccessfulOk
              /\ HasAttr(ReplyJobAttributes', "job-id", reply'.req.job_id.int)
              /\ HasAttr(ReplyJobAttributes', "job-state", 9)
    ]_vars

\* The first request was a Create-Job of "alice" (job 1000 is the only job,
\* it carries her name, and the first request called no sink), the second a
\* Send-Document of "bob" for job 1000, whose sink succeeded: the job is
\* Completed and the response says so.
C18_Witness ==
    /\ reply # NoReply
    /\ reply.r = 2
    /\ reply.req.op = SendDocument
    /\ reply.req.user = "bob"
    /\ sink_calls[1] = 0
    /\ sink_calls[2] = 1
    /\ DOMAIN jobs = { FirstJobId }
    /\ jobs[FirstJobId].attributes.originating_user_name = "alice"
    /\ jobs[FirstJobId].state = "Completed"
    /\ ReplyStatus = SuccessfulOk
    /\ HasAttr(ReplyJobAttributes, "job-id", FirstJobId)
    /\ HasAttr(ReplyJobAttributes, "job-state", 9)

\* The names of the attributes of a group, in order.
AttrNames(attrs) == [i \in 1 .. Len(attrs) |-> attrs[i].name]

\* C19: with one client that waits for each response. While create_job runs,
\* the job it allocated is Pending with state_message "Pending" and no sink
\* has been called for the request; the response to a Create-Job is
\* successful-ok, the job is the one allocated last, it is in the cache and
\* still Pending, and the job-attributes group of the response holds exactly
\* job-uri, job-id, job-state, job-state-message and job-state-reasons, with
\* the job's id, job-state 3 (Pending) and job-state-message "Pending".
C19_CreateJob ==
    /\ \A r \in Reqs :
          (pc[r] \in { "insert", "created" } /\ task[r].req.op = CreateJob) =>
              /\ jobs[task[r].job].state = "Pending"
              /\ jobs[task[r].job].state_message = "Pending"
              /\ pc[r] = "created" => task[r].job \in job_snapshot
              /\ sink_calls[r] = 0
    /\ (reply # NoReply /\ reply.req.op = CreateJob /\ check_version(reply.req.version)) =>
          /\ ReplyStatus = SuccessfulOk
          /\ reply.by = "handler"
          /\ sink_calls[reply.r] = 0
          /\ allocated # <<>>
          /\ reply.job = allocated[Len(allocated)]
          /\ reply.job \in job_snapshot
          /\ jobs[reply.job].state = "Pending"
          /\ jobs[reply.job].state_message = "Pending"
          /\ Len(reply.resp.groups) = 2
          /\ AttrNames(ReplyJobAttributes) =
                 << "job-uri", "job-id", "job-state", "job-state-message",
                    "job-state-reasons" >>
          /\ HasAttr(ReplyJobAttributes, "job-id", reply.job)
          /\ HasAttr(ReplyJobAttributes, "job-state", 3)
          /\ HasAttr(ReplyJobAttributes, "job-state-message", "Pending")

\* The second job, 1001, was allocated by a Create-Job of "alice", and the
\* response reports it as Pending.
C19_Witness ==
    /\ reply # NoReply
    /\ reply.req.op = CreateJob
    /\ reply.req.user = "alice"
    /\ reply.job = FirstJobId + 1
    /\ jobs[reply.job].attributes.originating_user_name = "alice"
    /\ ReplyStatus = SuccessfulOk
    /\ HasAttr(ReplyJobAttributes, "job-state", 3)

\* C20: with one client that waits for each response. A step of the handler
\* of a Validate-Job, Cancel-Job, Get-Printer-Attributes, Get-Job-Attributes
\* or Get-Jobs request leaves every job (state, state message and
\* timestamps), the job cache and the job-id counter as they are, and calls
\* no sink; a Validate-Job or Cancel-Job of an accepted version is answered
\* in the step that receives it, with successful-ok and one group, the
\* operation attributes attributes-charset and attributes-natural-language.
C20_NoStateChange ==
    [][\A r \in Reqs :
          (pc'[r] # pc[r] \/ task'[r] # task[r]) =>
              LET q == IF pc[r] # "idle" THEN task[r].req
                       ELSE IF pc'[r] = "done" THEN reply'.req
                       ELSE task'[r].req
              IN
              /\ q.op \in { ValidateJob, CancelJob, GetPrinterAttributes,
                             GetJobAttributes, GetJobs } =>
                     /\ jobs' = jobs
                     /\ job_snapshot' = job_snapshot
                     /\ job_id' = job_id
                     /\ sink_calls' = sink_calls
              /\ (q.op \in { ValidateJob, CancelJob } /\ check_version(q.version)) =>
                     /\ pc'[r] = "done"
                     /\ reply'.r = r
                     /\ ReplyStatus' = SuccessfulOk
                     /\ Len(reply'.resp.groups) = 1
                     /\ AttrNames(ReplyOperationAttributes') =
                            << "attributes-charset", "attributes-natural-language" >>
    ]_vars

\* A Cancel-Job that names job 1000 has been answered with successful-ok
\* while the job is in the cache, and the job is still Pending.
C20_Witness ==
    /\ reply # NoReply
    /\ reply.req.op = CancelJob
    /\ NamesCachedJob(reply.req)
    /\ jobs[reply.req.job_id.int].state = "Pending"
    /\ ReplyStatus = SuccessfulOk

\* The response a get_jobs handler has built so far: before and after a step.
JobGroups(resp) == SelectSeq(resp.groups, LAMBDA g : g.tag = JobAttributes)

\* C21: every step of a Get-Jobs handler adds at most one job-attributes
\* group to the response, the first step adds none, and a step of the loop
\* adds one only for a job of its iterator whose state, in the state the step
\* reads it in, is of the class the request asks for: Completed, Canceled and
\* Aborted are "completed", every other state is "not-completed", and a
\* which-jobs that is absent or neither of the two keywords asks for
\* "not-completed". The group holds that job's attributes as they are then.
C21_WhichJobs ==
    [][\A r \in Reqs :
          (/\ pc'[r] # pc[r] \/ task'[r] # task[r]
           /\ (IF pc[r] = "idle"
               THEN (IF pc'[r] = "done" THEN reply'.req ELSE task'[r].req)
               ELSE task[r].req).op = GetJobs
           /\ pc[r] = "idle" =>
                  check_version((IF pc'[r] = "done" THEN reply'.req
                                 ELSE task'[r].req).version)) =>
              LET q == IF pc[r] # "idle" THEN task[r].req
                       ELSE IF pc'[r] = "done" THEN reply'.req
                       ELSE task'[r].req
                  before == IF pc[r] = "idle" THEN <<>> ELSE JobGroups(task[r].resp)
                  after == JobGroups(IF pc'[r] = "done" THEN reply'.resp ELSE task'[r].resp)
                  wanted == IF q.which_jobs = "completed" THEN "completed"
                            ELSE "not-completed"
                  class(state) == IF state \in { "Completed", "Canceled", "Aborted" }
                                  THEN "completed" ELSE "not-completed"
              IN /\ Len(after) \in { Len(before), Len(before) + 1 }
                 /\ SubSeq(after, 1, Len(before)) = before
                 /\ pc[r] = "idle" => after = <<>>
                 /\ Len(after) = Len(before) + 1 =>
                        \E id \in task[r].todo :
                            /\ class(jobs[id].state) = wanted
                            /\ after[Len(after)].attributes =
                                   job_attributes_for(jobs[id],
                                                      get_requested_attributes(q), uptime)
    ]_vars

\* A Get-Jobs without which-jobs has been answered with one group, for a job
\* that is Processing, while the cache also holds a Completed job.
C21_Witness ==
    /\ reply # NoReply
    /\ reply.req.op = GetJobs
    /\ reply.req.which_jobs = Absent
    /\ Len(JobGroups(reply.resp)) = 1
    /\ HasAttr(ReplyJobAttributes, "job-state", 5)
    /\ \E id \in job_snapshot : jobs[id].state = "Completed"

\* C22: the response to a Get-Jobs request with an integer limit holds at
\* most limit job-attributes groups, whatever the limit and however many
\* jobs match; without a limit it holds one group for every cached job of
\* the requested class.
C22_AtMostLimitGroups ==
    (reply # NoReply /\ reply.req.op = GetJobs /\ reply.by = "handler") =>
        IF reply.req.limit.some
        THEN Len(JobGroups(reply.resp)) <= reply.req.limit.v
        ELSE Len(JobGroups(reply.resp)) =
                 Cardinality({ id \in job_snapshot :
                                   WhichJobOfState(jobs[id].state) =
                                       WhichJobOfKeyword(reply.req.which_jobs) })

\* The set of the names of a sequence of attributes.
NameSet(attrs) == { attrs[i].name : i \in 1 .. Len(attrs) }

\* C23: whatever requested-attributes a Get-Printer-Attributes,
\* Get-Job-Attributes or Get-Jobs request carries, the names in each group of
\* the response are among the names the same printer, or the same job, has
\* for requested-attributes = {"all"}.
C23_AllIsSuperset ==
    (reply # NoReply /\ reply.by = "handler") =>
        /\ reply.req.op = GetPrinterAttributes =>
               /\ GroupAttrs(reply.resp, PrinterAttributes) =
                      printer_attributes(get_requested_attributes(reply.req), uptime)
               /\ NameSet(GroupAttrs(reply.resp, PrinterAttributes))
                      \subseteq NameSet(printer_attributes({ "all" }, uptime))
        /\ reply.req.op \in { GetJobAttributes, GetJobs } =>
               \A i \in 1 .. Len(JobGroups(reply.resp)) :
                   \E id \in DOMAIN jobs :
                       /\ JobGroups(reply.resp)[i].attributes =
                              job_attributes_for(jobs[id],
                                  get_requested_attributes(reply.req), uptime)
                       /\ NameSet(JobGroups(reply.resp)[i].attributes)
                              \subseteq NameSet(job_attributes_for(jobs[id], { "all" }, uptime))

\* A Get-Jobs that asked for printer-uuid and job-template has been answered
\* with a group that holds media.
C23_Witness ==
    /\ reply # NoReply
    /\ reply.req.op = GetJobs
    /\ reply.req.requested = Requested({"printer-uuid", "job-template"})
    /\ HasAttrNamed(ReplyJobAttributes, "media")
    /\ ~HasAttrNamed(ReplyJobAttributes, "job-id")

\* The printer-attributes group of the response.
ReplyPrinterAttributes == GroupAttrs(reply.resp, PrinterAttributes)

\* C24: the response to a Get-Printer-Attributes is successful-ok with one
\* printer-attributes group. If requested-attributes is present without
\* "all", the group holds the available printer attributes whose names are in
\* the set, with the values they have under "all", and nothing else: asking
\* for printer-name and printer-state gives exactly those two, asking for
\* printer-uuid of a printer without uuid gives none. If requested-attributes
\* is absent or holds "all", the group holds every available attribute.
C24_RequestedPrinterAttributes ==
    (reply # NoReply /\ reply.by = "handler" /\ reply.req.op = GetPrinterAttributes) =>
        LET available == printer_attributes({ "all" }, uptime)
            requested == reply.req.requested
        IN /\ ReplyStatus = SuccessfulOk
           /\ Len(reply.resp.groups) = 2
           /\ IF requested.some /\ "all" \notin requested.names
              THEN /\ ReplyPrinterAttributes =
                          SelectSeq(available, LAMBDA a : a.name \in requested.names)
                   /\ NameSet(ReplyPrinterAttributes) =
                          requested.names \cap NameSet(available)
              ELSE ReplyPrinterAttributes = available
           /\ requested = Requested({"printer-name", "printer-state", "job-id", "job-state"}) =>
                  ReplyPrinterAttributes =
                      << Attr("printer-name", "IppServer"), Attr("printer-state", 3) >>
           /\ requested = Requested({"printer-uuid", "job-template"}) =>
                  ReplyPrinterAttributes = <<>>
           /\ ~requested.some =>
                  /\ HasAttr(ReplyPrinterAttributes, "printer-name", "IppServer")
                  /\ Len(ReplyPrinterAttributes) = Len(available)
                  /\ Len(available) > 2

\* A Get-Printer-Attributes that asked for printer-name and printer-state
\* (and two job attributes) has been answered with two attributes.
C24_Witness ==
    /\ reply # NoReply
    /\ reply.req.op = GetPrinterAttributes
    /\ reply.req.requested =
           Requested({"printer-name", "printer-state", "job-id", "job-state"})
    /\ Len(ReplyPrinterAttributes) = 2

\* ===================================================================
\* Properties of the HTTP front end (handle_ipp_via_http)

\* The front end has returned for an HTTP request.
HttpReturned == reply # NoReply
\* Neither the parser nor the service has been run for the request answered.
NothingInvoked ==
    /\ ~reply.http.parsed
    /\ ~reply.http.failed
    /\ reply.resp = NoResponse
    /\ answered[reply.r] = 0
    /\ sink_calls[reply.r] = 0

\* C25: a request whose method is not POST is answered without the parser or
\* the service being run: a GET of "/" with 200 and the body
\* "IPP server running...", any other GET with 404, and any other method
\* with 405 and the header Allow: POST.
C25_NonPost ==
    (HttpReturned /\ reply.http_req.method # "POST") =>
        /\ NothingInvoked
        /\ IF reply.http_req.method = "GET"
           THEN IF reply.http_req.path = "/"
                THEN reply.http.status = 200 /\ reply.http.body = "IPP server running..."
                ELSE reply.http.status = 404
           ELSE reply.http.status = 405 /\ reply.http.allow = "POST"

\* C26: the step in which the front end returns for a POST whose
\* Content-Type is missing or is not exactly "application/ipp" returns 415,
\* runs neither the parser nor the service, builds no IPP response, and leaves
\* the counter, the jobs and the cache as they are.
C26_UnsupportedMediaType ==
    [][(/\ reply = NoReply
        /\ reply' # NoReply
        /\ reply'.http_req.method = "POST"
        /\ reply'.http_req.content_type # "application/ipp") =>
           /\ reply'.http.status = 415
           /\ ~reply'.http.failed
           /\ ~reply'.http.parsed
           /\ reply'.http.content_type # "application/ipp"
           /\ reply'.resp = NoResponse
           /\ UNCHANGED << job_id, jobs, job_snapshot, allocated, answered, sink_calls >>
    ]_vars

\* A POST of text/plain whose body would parse as IPP has been answered with
\* 415.
C26_Witness ==
    /\ HttpReturned
    /\ reply.http_req = HttpRequest("POST", "/ipp/print", "text/plain", "ipp")
    /\ reply.http.status = 415
    /\ NothingInvoked

\* C27: whenever the front end returns for a POST of application/ipp whose
\* body parsed, it returns HTTP 200 with Content-Type application/ipp and the
\* response of handle_request as the body, whatever the IPP status of that
\* response.
C27_AlwaysHttpOk ==
    (/\ HttpReturned
     /\ reply.http_req.method = "POST"
     /\ reply.http_req.content_type = "application/ipp"
     /\ reply.http_req.body = "ipp") =>
        /\ ~reply.http.failed
        /\ reply.http.status = 200
        /\ reply.http.content_type = "application/ipp"
        /\ reply.http.body = reply.resp
        /\ reply.resp # NoResponse
        /\ answered[reply.r] = 1

\* A Send-Document for an unknown job has been answered with HTTP 200 around
\* client-error-not-found.
C27_Witness ==
    /\ HttpReturned
    /\ reply.http.status = 200
    /\ reply.req.op = SendDocument
    /\ ReplyStatus = ClientErrorNotFound

\* C28: when the parser fails on the body of a POST of application/ipp, the
\* front end still returns an HTTP response, whose body is an IPP response
\* with status server-error-internal-error.
C28_ParserErrorResponse ==
    (/\ HttpReturned
     /\ reply.http_req.method = "POST"
     /\ reply.http_req.content_type = "application/ipp"
     /\ reply.http_req.body # "ipp") =>
        /\ ~reply.http.failed
        /\ reply.http.status = 200
        /\ reply.http.body.status = ServerErrorInternalError

\* ===================================================================
\* Properties of BodyReader

\* C30: whatever the frames of the body and whatever the buffer sizes of the
\* reads, the bytes the reads have returned so far, then the bytes kept in
\* chunk, then the data of the frames not yet polled, are the bytes of the
\* body in wire order (1, 2, 3, ...): no byte is lost, returned twice or out
\* of order, and once the body is exhausted the reads have returned all of
\* it. A read returns at most buf bytes, what it cannot return it keeps (and
\* never keeps nothing as a chunk), and an error of the inner body comes back
\* as an io::Error of kind Other.
C30_BytesInOrder ==
    /\ LET all == got \o chunk.v \o DataOf(body) IN all = Iota(Len(all))
    /\ chunk.some => chunk.v # << >>
    /\ ~chunk.some => chunk = NoChunk
    /\ read.kind = "ok" =>
          /\ Len(read.bytes) <= read.buf
          /\ Len(read.bytes) <= Len(got)
          /\ SubSeq(got, Len(got) - Len(read.bytes) + 1, Len(got)) = read.bytes
          /\ chunk.some => Len(read.bytes) = read.buf
    /\ read.kind = "err" =>
          /\ read.error = << "Other", "Error reading body: ", "e" >>
          /\ body = << >>
    /\ read.kind \in { "none", "ok", "err", "pending" }

\* A frame of three bytes was read with buffers of two bytes and less: the
\* last read came from the kept chunk, and all three bytes have been returned.
C30_Witness ==
    /\ read.kind = "ok"
    /\ read.from = "chunk"
    /\ read.bytes = << 3 >>
    /\ got = << 1, 2, 3 >>
    /\ body = << >>
    /\ ~chunk.some


\* C33: a poll_read with a non-empty destination buffer returns Ok(0) only
\* when the HTTP body has ended: after such a read the body has no frame
\* left to yield.
C33_ZeroOnlyAtEnd ==
    (read.kind = "ok" /\ read.buf > 0 /\ read.bytes = << >>) => body = << >>

\* ===================================================================
\* Properties of the response streams (Body, ReaderStream)

\* The bytes of the Ok items of a sequence of poll results, concatenated.
RECURSIVE OkBytes(_)
OkBytes(its) ==
    IF its = << >> THEN << >>
    ELSE (IF Head(its).kind = "ok" THEN Head(its).bytes ELSE << >>) \o OkBytes(Tail(its))
\* The polls of a sequence of poll results that ended the stream: None or an error.
Ends(its) == { i \in 1 .. Len(its) : its[i].kind \in { "none", "err" } }
IsPrefix(a, b) == Len(a) <= Len(b) /\ SubSeq(b, 1, Len(a)) = a

\* C31: an empty Body answers None to every poll; a bytes-only Body answers
\* its bytes to the first poll and None to every later one; a Body made from
\* an IppRequestResponse answers the header to the first poll and never
\* again, then the payload's bytes in the order of the payload, and None from
\* the poll that ended the stream on (an end that comes only after the whole
\* payload, unless the payload's read failed).
C31_BodyShapes ==
    /\ inner.kind = "Empty" => \A i \in 1 .. Len(items) : items[i] = ItemNone
    /\ inner.kind = "Bytes" =>
          \A i \in 1 .. Len(items) :
              items[i] = (IF i = 1 THEN ItemOk(inner.bytes) ELSE ItemNone)
    /\ inner.kind = "IppRequestResponse" =>
          LET rest == SubSeq(items, 2, Len(items))
              all == inner.t.payload.rest
          IN /\ items # << >> => items[1] = ItemOk(inner.t.header)
             /\ \A i \in 1 .. Len(rest) :
                   /\ rest[i] # ItemOk(inner.t.header)
                   /\ \A k \in 1 .. Len(rest[i].bytes) : rest[i].bytes[k] # 0
             /\ IsPrefix(OkBytes(rest), all)
             /\ \A i \in Ends(rest) :
                   /\ OkBytes(rest) = all
                   /\ rest[i].kind = "err" => inner.t.payload.fails
                   /\ \A j \in i + 1 .. Len(rest) : rest[j] = ItemNone
C31_Witness ==
    /\ inner.kind = "IppRequestResponse"
    /\ items = << ItemOk(HeaderBlob), ItemOk(<< 1, 2 >>), ItemPending, ItemOk(<< 3 >>),
                  ItemNone, ItemNone >>

\* C37: ReaderStream answers None at the poll where its reader returns 0
\* bytes and the error at the poll where its reader fails; from then on it
\* answers None and does not poll the reader; every Ok item is a chunk of at
\* least one byte, and the chunks in order are the bytes the reader returned.
C37_Fused ==
    /\ Len(polled) <= Len(stream_items)
    /\ \A i \in 1 .. Len(polled) :
          stream_items[i] =
              (IF polled[i] = ItemOk(<< >>) THEN ItemNone ELSE polled[i])
    /\ \A i \in Len(polled) + 1 .. Len(stream_items) : stream_items[i] = ItemNone
    /\ \A i \in Ends(stream_items) :
          /\ Len(polled) <= i
          /\ \A j \in i + 1 .. Len(stream_items) : stream_items[j] = ItemNone
    /\ \A i \in 1 .. Len(stream_items) :
          stream_items[i].kind = "ok" => stream_items[i].bytes # << >>
    /\ OkBytes(stream_items) = OkBytes(polled)
    /\ reader_stream.reader.some <=> Ends(stream_items) = {} /\ inner.kind = "IppRequestResponse"
C37_Witness ==
    /\ stream_items = << ItemOk(<< 1, 2 >>), ItemErr, ItemNone >>
    /\ polled = << ItemOk(<< 1, 2 >>), ItemErr >>
    /\ ~reader_stream.reader.some

\* ===================================================================
\* Properties of rejected and repeated document requests

Rejections ==
    { ClientErrorDocumentFormatNotSupported, ClientErrorCompressionNotSupported }

\* C34: with one client that waits for each response. When a Print-Job has
\* been answered client-error-document-format-not-supported or
\* client-error-compression-not-supported, its handler has consumed no job id
\* and put no job into the cache: no id the counter gave out and no entry of
\* the cache is the handler's, and if the request was the first one the
\* counter and the cache are as the service started with.
C34_RejectedPrintJobLeavesNoJob ==
    (reply # NoReply /\ reply.req.op = PrintJob /\ ReplyStatus \in Rejections) =>
        /\ reply.job \notin job_snapshot
        /\ \A i \in 1 .. Len(allocated) : allocated[i] # reply.job
        /\ reply.r = 1 => job_id = FirstJobId /\ job_snapshot = {}

\* The requests whose handler is running on job id.
InFlightFor(id) == { r \in Reqs : pc[r] \notin { "idle", "done" } /\ task[r].job = id }

\* C35: with one client that waits for each response, and a sink that
\* returns. A job that no running handler is working on is Pending,
\* Completed or Aborted, and not Processing.
C35_ProcessingOnlyInFlight ==
    \A id \in DOMAIN jobs :
        InFlightFor(id) = {} => jobs[id].state \in { "Pending", "Completed", "Aborted" }

\* C36: with one client that waits for each response. A request whose
\* version check_version rejects is answered in the step that receives it,
\* by handle_request itself (no operation method runs), with
\* server-error-version-not-supported, whatever its operation code is, and
\* the step leaves the jobs, the job cache, the job-id counter and the sink
\* alone.
C36_VersionBeforeOperation ==
    [][\A r \in Reqs :
          (pc[r] = "idle" /\ pc'[r] # "idle") =>
              LET q == IF pc'[r] = "done" THEN reply'.req ELSE task'[r].req IN
              ~check_version(q.version) =>
                  /\ pc'[r] = "done"
                  /\ reply'.r = r
                  /\ ReplyStatus' = ServerErrorVersionNotSupported
                  /\ reply'.by = "handle_request"
                  /\ jobs' = jobs
                  /\ job_snapshot' = job_snapshot
                  /\ job_id' = job_id
                  /\ allocated' = allocated
                  /\ sink_calls' = sink_calls
    ]_vars

\* A 3.0 request with an operation code no Operation has was answered
\* server-error-version-not-supported while the cache holds a job.
C36_Witness ==
    /\ reply # NoReply
    /\ reply.req.version = Ver(3, 0)
    /\ reply.req.op = UnknownOperation
    /\ ReplyStatus = ServerErrorVersionNotSupported
    /\ reply.by = "handle_request"
    /\ job_snapshot # {}

\* C38: clients that use Create-Job and Send-Document only. While a
\* Send-Document's sink call for a job is running, no other Send-Document's
\* sink call for that job is running, and no sink call for the job has
\* returned before (a sink call that returned has set the job's completed_at).
C38_OneSinkCallPerJob ==
    \A r \in Reqs :
        (pc[r] = "sink" /\ task[r].req.op = SendDocument) =>
            /\ \A r2 \in Reqs \ { r } : ~(pc[r2] = "sink" /\ task[r2].job = task[r].job)
            /\ ~jobs[task[r].job].completed_at.some

\* ===================================================================
\* Properties of the job locks

\* The handler can take its next step: it is not waiting for a lock another
\* handler holds.
CanStep(r) ==
    /\ locking[r].todo # << >>
    /\ Head(locking[r].todo).op \in { "write", "read" } =>
          Granted(r, Head(locking[r].todo).op, Head(locking[r].todo).job)

\* C32: a handler whose sink call is running holds no job lock, and a handler
\* that is about to acquire a job lock (and so may wait for it) holds none;
\* a handler never holds more than one guard; and whenever some handler has
\* not finished, some handler can take a step: the handlers do not deadlock
\* on job locks.
C32_ShortCriticalSections ==
    /\ \A r \in Reqs :
          /\ locking[r].in_sink # NoJob => locking[r].held = {}
          /\ (locking[r].todo # << >> /\ Head(locking[r].todo).op \in { "write", "read" })
                => locking[r].held = {}
          /\ Cardinality(locking[r].held) <= 1
    /\ (\E r \in Reqs : locking[r].todo # << >>) => \E r \in Reqs : CanStep(r)

\* While the sink call of a handler for job 1000 is running, another handler
\* holds the read guard of job 1000, and a third one waits for its write guard.
C32_Witness ==
    \E r1, r2, r3 \in Reqs :
        /\ locking[r1].in_sink = FirstJobId
        /\ locking[r2].held = { << "read", FirstJobId >> }
        /\ locking[r3].todo # << >>
        /\ Head(locking[r3].todo) = LockOp("write", FirstJobId)
        /\ ~CanStep(r3)
====
